---------------------------- MODULE Spec2Model ----------------------------
(***************************************************************************)
(* A model of scripts/generate_training_data.py: the template-driven       *)
(* generator of (command, function call) training pairs.                   *)
(*                                                                         *)
(* Python values are tagged records, so that a dict, a list, a str, an int *)
(* and a bool stay distinguishable the way isinstance() distinguishes      *)
(* them.  A Python dict is the sequence of its (key, value) items in       *)
(* insertion order, with no key twice.  Python strings are TLA+ strings,   *)
(* read character by character with SubSeq.                                *)
(***************************************************************************)
EXTENDS Integers, Sequences, FiniteSets, TLC

VARIABLES
    \* ---- main(): one run of the script
    pc,               \* the position of main()
    targets,          \* the per-category counts main() passes (scaled down)
    by_category,      \* category |-> the list its generator returned
    all_examples,     \* main's all_examples
    issues,           \* main's issues
    train_examples,   \* main's train_examples
    valid_examples,   \* main's valid_examples
    train_formatted,  \* main's train_formatted
    valid_formatted,  \* main's valid_formatted
    sample_examples,  \* main's sample_examples
    files,            \* artifact |-> what has been written to it
    \* ---- one call of a category generator, then of format_for_mlx_lm
    gen_call,         \* [fn, n]: the generator called and its argument
    gen_result,       \* the list it returned
    gen_formatted,    \* format_for_mlx_lm of that list
    gen_pc,           \* "ready", then "returned", then "formatted"
    gen_draws,        \* the values the random source served during the call
    gen_again,        \* what the same call on the same draws returns in
                      \* another run of the interpreter
    \* ---- calls of the encoder on one descriptor
    desc,             \* the descriptor (a dict value)
    reordered,        \* the same fields inserted in another order
    encoded,          \* make_function_call_from_dict(desc), first call
    encoded_re,       \* make_function_call_from_dict(reordered)
    encoded_again,    \* make_function_call_from_dict(desc), a later call
    rng,              \* how many draws the shared random source has served
    \* ---- one call of validate_examples
    val_before,       \* the list handed to validate_examples
    val_examples,     \* the same list object once the call has returned
    val_issues,       \* the findings returned
    val_pc            \* "ready" before the call, "returned" after it

mainVars == <<pc, targets, by_category, all_examples, issues, train_examples,
              valid_examples, train_formatted, valid_formatted,
              sample_examples, files>>
genVars == <<gen_call, gen_result, gen_formatted, gen_pc, gen_draws, gen_again>>
encVars == <<desc, reordered, encoded, encoded_re, encoded_again, rng>>
valVars == <<val_before, val_examples, val_issues, val_pc>>
vars == <<mainVars, genVars, encVars, valVars>>

-----------------------------------------------------------------------------
(* Python values *)

PStr(s) == [t |-> "str", s |-> s]
PInt(n) == [t |-> "int", n |-> n]
PBool(b) == [t |-> "bool", b |-> b]
PList(elems) == [t |-> "list", elems |-> elems]
PDict(items) == [t |-> "dict", items |-> items]
PNone == [t |-> "none"]

\* one item of a dict
KV(key, value) == [k |-> key, v |-> value]

\* key in d
Has(items, key) == \E i \in 1..Len(items) : items[i].k = key

\* d.get(key, default)
Get(items, key, default) ==
    IF Has(items, key)
    THEN items[CHOOSE i \in 1..Len(items) : items[i].k = key].v
    ELSE default

\* d[key] = value: a key already present keeps its place, a new one goes last
DictSet(items, key, value) ==
    IF Has(items, key)
    THEN [i \in 1..Len(items) |->
            IF items[i].k = key THEN KV(key, value) ELSE items[i]]
    ELSE Append(items, KV(key, value))

-----------------------------------------------------------------------------
(* Text helpers *)

\* str(n) of an int
IntToStr(n) ==
    LET
        Digit(d) ==
            CASE d = 0 -> "0" [] d = 1 -> "1" [] d = 2 -> "2" [] d = 3 -> "3"
              [] d = 4 -> "4" [] d = 5 -> "5" [] d = 6 -> "6" [] d = 7 -> "7"
              [] d = 8 -> "8" [] d = 9 -> "9"
        RECURSIVE Decimal(_)
        Decimal(m) ==
            IF m < 10 THEN Digit(m) ELSE Decimal(m \div 10) \o Digit(m % 10)
    IN
        IF n < 0 THEN "-" \o Decimal(0 - n) ELSE Decimal(n)

RECURSIVE Join(_, _)
Join(parts, sep) ==
    IF Len(parts) = 0 THEN ""
    ELSE IF Len(parts) = 1 THEN parts[1]
    ELSE parts[1] \o sep \o Join(Tail(parts), sep)

\* s.startswith(p), s.endswith(p)
StartsWith(s, p) == Len(s) >= Len(p) /\ SubSeq(s, 1, Len(p)) = p
EndsWith(s, p) ==
    Len(s) >= Len(p) /\ SubSeq(s, Len(s) - Len(p) + 1, Len(s)) = p

\* json's string escaping: every character escaped, in order
RECURSIVE JsonEscape(_)
JsonEscape(s) ==
    LET
        \* json's escaping of one character (of those the texts here can hold)
        JsonEscapeChar(c) ==
            IF c = "\"" THEN "\\\""
            ELSE IF c = "\\" THEN "\\\\"
            ELSE IF c = "\n" THEN "\\n"
            ELSE c
    IN
        IF Len(s) = 0 THEN ""
        ELSE IF Len(s) = 1 THEN JsonEscapeChar(s)
        ELSE JsonEscape(SubSeq(s, 1, Len(s) \div 2))
             \o JsonEscape(SubSeq(s, Len(s) \div 2 + 1, Len(s)))

\* json.dumps(value, separators=(',', ':'))
RECURSIVE JsonDumps(_)
JsonDumps(value) ==
    CASE value.t = "str" -> "\"" \o JsonEscape(value.s) \o "\""
      [] value.t = "int" -> IntToStr(value.n)
      [] value.t = "bool" -> (IF value.b THEN "true" ELSE "false")
      [] value.t = "none" -> "null"
      [] value.t = "list" ->
            "[" \o Join([i \in 1..Len(value.elems) |->
                            JsonDumps(value.elems[i])], ",") \o "]"
      [] value.t = "dict" ->
            "{" \o Join([i \in 1..Len(value.items) |->
                            "\"" \o JsonEscape(value.items[i].k) \o "\":"
                            \o JsonDumps(value.items[i].v)], ",") \o "}"

-----------------------------------------------------------------------------
(* The encoder *)

\* (mutant) a boolean falls through to str(value)
escape_bool_as_str(value) ==
    CASE value.t = "dict" -> JsonDumps(value)
      [] value.t = "list" -> JsonDumps(value)
      [] value.t = "bool" -> (IF value.b THEN "True" ELSE "False")
      [] value.t = "int" -> IntToStr(value.n)
      [] value.t = "str" -> value.s
      [] value.t = "none" -> "None"

\* escape(value): the isinstance chain dict, list, bool, number, anything else
escape(value) ==
    CASE value.t = "dict" -> JsonDumps(value)
      [] value.t = "list" -> JsonDumps(value)
      [] value.t = "bool" -> (IF value.b THEN "true" ELSE "false")
      [] value.t = "int" -> IntToStr(value.n)
      [] value.t = "str" -> value.s
      [] value.t = "none" -> "None"

\* one "key:<escape>value<escape>" part
param_part(item) == item.k \o ":<escape>" \o escape(item.v) \o "<escape>"

\* (mutant) the parts are joined in an order that depends on the random source
make_function_call_unstable(func_name, params) ==
    "<start_function_call>call:" \o func_name \o "{"
    \o Join([i \in 1..Len(params) |->
                param_part(params[IF rng % 2 = 1 THEN Len(params) + 1 - i
                                  ELSE i])], ",")
    \o "}<end_function_call>"

\* (mutant) an empty parameter list is written as one empty escaped value
make_function_call_marked(func_name, params) ==
    "<start_function_call>call:" \o func_name \o "{"
    \o (IF Len(params) = 0 THEN "<escape><escape>"
        ELSE Join([i \in 1..Len(params) |-> param_part(params[i])], ","))
    \o "}<end_function_call>"

\* make_function_call(func_name, params), params in insertion order
make_function_call(func_name, params) ==
    "<start_function_call>call:" \o func_name \o "{"
    \o Join([i \in 1..Len(params) |-> param_part(params[i])], ",")
    \o "}<end_function_call>"

\* the "if key in output_dict: params[key] = output_dict[key]" lines
CopyIfPresent(params, d, key) ==
    IF Has(d, key) THEN DictSet(params, key, Get(d, key, PNone)) ELSE params

\* (mutant) the optional fields are copied in the descriptor's own key order
create_params_as_inserted(d) ==
    LET IsOptional(item) == item.k \in {"body", "metadata", "links"}
    IN  <<KV("atom_type", Get(d, "type", PStr("idea"))),
          KV("title", Get(d, "title", PStr("Untitled")))>>
        \o SelectSeq(d, IsOptional)

\* (mutant) the metadata of the descriptor is not copied
create_params_without_metadata(d) ==
    LET p0 == <<KV("atom_type", Get(d, "type", PStr("idea"))),
                KV("title", Get(d, "title", PStr("Untitled")))>>
        p1 == CopyIfPresent(p0, d, "body")
    IN  CopyIfPresent(p1, d, "links")

\* the create branch's params
create_params(d) ==
    LET p0 == <<KV("atom_type", Get(d, "type", PStr("idea"))),
                KV("title", Get(d, "title", PStr("Untitled")))>>
        p1 == CopyIfPresent(p0, d, "body")
        p2 == CopyIfPresent(p1, d, "metadata")
    IN  CopyIfPresent(p2, d, "links")

\* the update branch's params
update_params(d) ==
    LET p0 == <<KV("target", Get(d, "target", PStr("context")))>>
        p1 == CopyIfPresent(p0, d, "title")
        p2 == CopyIfPresent(p1, d, "body")
        p3 == CopyIfPresent(p2, d, "metadata")
    IN  CopyIfPresent(p3, d, "links")

\* for k, v in output_dict["filter"].items(): params[k] = v
RECURSIVE FlattenFilter(_, _)
FlattenFilter(params, filter_items) ==
    IF Len(filter_items) = 0 THEN params
    ELSE FlattenFilter(DictSet(params, filter_items[1].k, filter_items[1].v),
                       Tail(filter_items))

\* the search branch's params
search_params(d) ==
    LET p0 == CopyIfPresent(<<>>, d, "query")
        p1 == IF Has(d, "type")
              THEN DictSet(p0, "types", PList(<<Get(d, "type", PNone)>>))
              ELSE p0
        p2 == IF Has(d, "filter")
              THEN FlattenFilter(p1, Get(d, "filter", PNone).items)
              ELSE p1
        p3 == CopyIfPresent(p2, d, "mode")
    IN  CopyIfPresent(p3, d, "target")

\* (mutant) the item keeps the descriptor's key "type"
batch_item_unrenamed(item) ==
    LET i0 == <<KV("type", Get(item.items, "type", PStr("task"))),
                KV("title", Get(item.items, "title", PStr("Untitled")))>>
    IN  PDict(CopyIfPresent(i0, item.items, "links"))

\* the batch branch's item_dict for one item
batch_item(item) ==
    LET i0 == <<KV("atom_type", Get(item.items, "type", PStr("task"))),
                KV("title", Get(item.items, "title", PStr("Untitled")))>>
    IN  PDict(CopyIfPresent(i0, item.items, "links"))

\* the batch branch's params
batch_params(d) ==
    LET given == Get(d, "items", PList(<<>>)).elems
    IN  <<KV("items", PList([i \in 1..Len(given) |-> batch_item(given[i])]))>>

\* (mutant) the verb itself is written as the function name
make_function_call_from_dict_verb_named(output_dict) ==
    LET d == output_dict.items
        action == Get(d, "action", PNone)
        params ==
            CASE action = PStr("create") -> create_params(d)
              [] action = PStr("update") -> update_params(d)
              [] action = PStr("delete") ->
                    <<KV("target", Get(d, "target", PStr("context")))>>
              [] action = PStr("search") -> search_params(d)
              [] action = PStr("batch") -> batch_params(d)
              [] action = PStr("navigate") ->
                    <<KV("destination", Get(d, "destination", PStr("home")))>>
              [] OTHER -> <<KV("atom_type", PStr("idea")),
                            KV("title", PStr("Unknown"))>>
    IN  make_function_call(IF action.t = "str" THEN action.s ELSE "create",
                           params)

\* (mutant) the fallback names a function of its own
make_function_call_from_dict_unknown_function(output_dict) ==
    LET d == output_dict.items
        action == Get(d, "action", PNone)
    IN  CASE action = PStr("create") ->
                make_function_call("create_atom", create_params(d))
          [] action = PStr("update") ->
                make_function_call("update_atom", update_params(d))
          [] action = PStr("delete") ->
                make_function_call("delete_atom",
                    <<KV("target", Get(d, "target", PStr("context")))>>)
          [] action = PStr("search") ->
                make_function_call("search_atoms", search_params(d))
          [] action = PStr("batch") ->
                make_function_call("batch_create", batch_params(d))
          [] action = PStr("navigate") ->
                make_function_call("navigate",
                    <<KV("destination", Get(d, "destination", PStr("home")))>>)
          [] OTHER ->
                make_function_call("unknown",
                    <<KV("title", PStr("Unknown"))>>)

\* make_function_call_from_dict(output_dict)
make_function_call_from_dict(output_dict) ==
    LET d == output_dict.items
        action == Get(d, "action", PNone)
    IN  CASE action = PStr("create") ->
                make_function_call("create_atom", create_params(d))
          [] action = PStr("update") ->
                make_function_call("update_atom", update_params(d))
          [] action = PStr("delete") ->
                make_function_call("delete_atom",
                    <<KV("target", Get(d, "target", PStr("context")))>>)
          [] action = PStr("search") ->
                make_function_call("search_atoms", search_params(d))
          [] action = PStr("batch") ->
                make_function_call("batch_create", batch_params(d))
          [] action = PStr("navigate") ->
                make_function_call("navigate",
                    <<KV("destination", Get(d, "destination", PStr("home")))>>)
          [] OTHER ->
                make_function_call("create_atom",
                    <<KV("atom_type", PStr("idea")),
                      KV("title", PStr("Unknown"))>>)

-----------------------------------------------------------------------------
(* Bounds of the exploration *)

\* draws the random source may serve between two encoder calls
MaxDraws == 2

\* examples in a list handed to validate_examples
MaxValLen == 2

\* the count handed to a generator that loops n times
MaxN == 2

\* the count handed to a generator that splits n over several loops
MaxBlockN == 10

\* the largest navigation count of a run of main
MaxNavigation == 10

-----------------------------------------------------------------------------
(* The descriptors the encoder is applied to: every verb, every optional   *)
(* field present or absent, in every insertion order.                      *)

Absent == [t |-> "absent"]
Opt(key, value) == IF value = Absent THEN <<>> ELSE <<KV(key, value)>>

Descriptors ==
    LET
        SomeMetadata ==
            PDict(<<KV("startTime", PStr("3pm")), KV("blockType", PStr("event"))>>)
        SomeLinks ==
            PList(<<PDict(<<KV("type", PStr("project")), KV("query", PStr("Acme"))>>)>>)
        SomeItems ==
            PList(<<PDict(<<KV("type", PStr("idea")), KV("title", PStr("API design"))>>),
                    PDict(<<KV("title", PStr("call mom")), KV("links", SomeLinks)>>)>>)
        CreateDescriptors ==
            { PDict(<<KV("action", PStr("create"))>> \o Opt("type", ty)
                    \o Opt("title", ti) \o Opt("body", bo) \o Opt("metadata", me)
                    \o Opt("links", li)) :
                ty \in {Absent, PStr("task")}, ti \in {Absent, PStr("call mom")},
                bo \in {Absent, PStr("say \"hi\"")}, me \in {Absent, SomeMetadata},
                li \in {Absent, SomeLinks} }
        UpdateDescriptors ==
            { PDict(<<KV("action", PStr("update"))>> \o Opt("target", ta)
                    \o Opt("title", ti) \o Opt("body", bo) \o Opt("metadata", me)
                    \o Opt("links", li)) :
                ta \in {Absent, PStr("context")}, ti \in {Absent, PStr("call dad")},
                bo \in {Absent, PStr("notes")}, me \in {Absent, SomeMetadata},
                li \in {Absent, SomeLinks} }
        DeleteDescriptors ==
            { PDict(<<KV("action", PStr("delete"))>> \o Opt("target", ta)) :
                ta \in {Absent, PStr("context"), PStr("last")} }
        SearchDescriptors ==
            { PDict(<<KV("action", PStr("search"))>> \o Opt("type", ty)
                    \o Opt("query", qu) \o Opt("filter", fi) \o Opt("target", ta)
                    \o Opt("mode", mo)) :
                ty \in {Absent, PStr("task")}, qu \in {Absent, PStr("API design")},
                fi \in {Absent, PDict(<<>>),
                        PDict(<<KV("dueDate", PStr("today")),
                                KV("status", PStr("todo"))>>),
                        PDict(<<KV("mode", PStr("exact"))>>)},
                ta \in {Absent, PStr("context")}, mo \in {Absent, PStr("semantic")} }
        BatchDescriptors ==
            { PDict(<<KV("action", PStr("batch"))>> \o Opt("items", it)) :
                it \in {Absent, PList(<<>>), SomeItems} }
        NavigateDescriptors ==
            { PDict(<<KV("action", PStr("navigate"))>> \o Opt("destination", de)) :
                de \in {Absent, PStr("today"), PStr("inbox")} }
        \* a verb outside the six, an empty verb, and no verb at all
        OtherDescriptors ==
            { PDict(Opt("action", ac) \o Opt("title", ti)) :
                ac \in {Absent, PStr(""), PStr("archive")},
                ti \in {Absent, PStr("call mom")} }
    IN
        CreateDescriptors \cup UpdateDescriptors \cup DeleteDescriptors
        \cup SearchDescriptors \cup BatchDescriptors \cup NavigateDescriptors
        \cup OtherDescriptors

\* the dicts holding d's items in each insertion order
Reorderings(d) ==
    LET
        KeyOrders(n) ==
            { f \in [1..n -> 1..n] : \A i, j \in 1..n : f[i] = f[j] => i = j }
    IN
        { PDict([i \in 1..Len(d.items) |-> d.items[f[i]]]) :
            f \in KeyOrders(Len(d.items)) }

Verb(d) == Get(d.items, "action", PNone)

-----------------------------------------------------------------------------
(* Idle values: what the variables of the other scenarios hold *)

MainIdle ==
    /\ pc = "idle"
    /\ targets = <<>>
    /\ by_category = <<>>
    /\ all_examples = <<>>
    /\ issues = <<>>
    /\ train_examples = <<>>
    /\ valid_examples = <<>>
    /\ train_formatted = <<>>
    /\ valid_formatted = <<>>
    /\ sample_examples = <<>>
    /\ files = <<>>

GenIdle ==
    /\ gen_call = PNone
    /\ gen_result = <<>>
    /\ gen_formatted = <<>>
    /\ gen_pc = "idle"
    /\ gen_draws = <<>>
    /\ gen_again = <<>>

EncIdle ==
    /\ desc = PNone
    /\ reordered = PNone
    /\ encoded = PNone
    /\ encoded_re = PNone
    /\ encoded_again = PNone
    /\ rng = 0

ValIdle ==
    /\ val_before = <<>>
    /\ val_examples = <<>>
    /\ val_issues = <<>>
    /\ val_pc = "idle"

-----------------------------------------------------------------------------
(* Scenario: the encoder applied to one descriptor *)

InitEnc ==
    /\ desc \in Descriptors
    /\ reordered \in Reorderings(desc)
    /\ encoded = PNone
    /\ encoded_re = PNone
    /\ encoded_again = PNone
    /\ rng = 0
    /\ MainIdle /\ GenIdle /\ ValIdle

\* output = make_function_call_from_dict(desc)
EncodeFirst ==
    /\ encoded = PNone
    /\ encoded' = PStr(make_function_call_from_dict(desc))
    /\ UNCHANGED <<desc, reordered, encoded_re, encoded_again, rng>>
    /\ UNCHANGED <<mainVars, genVars, valVars>>

\* the same call on the reordered dict
EncodeReordered ==
    /\ encoded_re = PNone
    /\ encoded_re' = PStr(make_function_call_from_dict(reordered))
    /\ UNCHANGED <<desc, reordered, encoded, encoded_again, rng>>
    /\ UNCHANGED <<mainVars, genVars, valVars>>

\* some random.choice elsewhere in the run advances the shared source
Draw ==
    /\ rng < MaxDraws
    /\ rng' = rng + 1
    /\ UNCHANGED <<desc, reordered, encoded, encoded_re, encoded_again>>
    /\ UNCHANGED <<mainVars, genVars, valVars>>

\* a later call on the same descriptor
EncodeAgain ==
    /\ encoded # PNone
    /\ encoded_again = PNone
    /\ encoded_again' = PStr(make_function_call_from_dict(desc))
    /\ UNCHANGED <<desc, reordered, encoded, encoded_re, rng>>
    /\ UNCHANGED <<mainVars, genVars, valVars>>

NextEnc == EncodeFirst \/ EncodeReordered \/ Draw \/ EncodeAgain

SpecEnc == InitEnc /\ [][NextEnc]_vars

-----------------------------------------------------------------------------
(* The validator *)

\* valid_functions
valid_functions ==
    {"create_atom", "update_atom", "delete_atom", "search_atoms",
     "batch_create", "navigate", "query_level_system", "start_deep_work",
     "stop_deep_work", "extend_deep_work", "log_workout",
     "trigger_correlation_analysis"}

\* valid_actions
valid_actions == {"create", "update", "delete", "search", "batch", "navigate"}

CharAt(s, i) == SubSeq(s, i, i)

\* the length of the longest run of word characters of s starting at i
RECURSIVE WordRun(_, _)
WordRun(s, i) ==
    LET
        \* the characters \w matches among those the model's strings hold
        WordChars ==
            {"a", "b", "c", "d", "e", "f", "g", "h", "i", "j", "k", "l", "m", "n",
             "o", "p", "q", "r", "s", "t", "u", "v", "w", "x", "y", "z",
             "A", "B", "C", "D", "E", "F", "G", "H", "I", "J", "K", "L", "M", "N",
             "O", "P", "Q", "R", "S", "T", "U", "V", "W", "X", "Y", "Z",
             "0", "1", "2", "3", "4", "5", "6", "7", "8", "9", "_"}
    IN
        IF i <= Len(s) /\ CharAt(s, i) \in WordChars
        THEN 1 + WordRun(s, i + 1)
        ELSE 0

\* whether call:(\w+)\{ matches s at position i
CallMatchesAt(s, i) ==
    /\ i + 4 <= Len(s)
    /\ SubSeq(s, i, i + 4) = "call:"
    /\ WordRun(s, i + 5) >= 1
    /\ CharAt(s, i + 5 + WordRun(s, i + 5)) = "{"

\* re.search(r"call:(\w+)\{", output): whether there is a match
HasCallMatch(s) == \E i \in 1..Len(s) : CallMatchesAt(s, i)

\* match.group(1) of the leftmost match
CallMatchName(s) ==
    LET i == CHOOSE i \in 1..Len(s) :
                 /\ CallMatchesAt(s, i)
                 /\ \A j \in 1..(i - 1) : ~CallMatchesAt(s, j)
    IN  SubSeq(s, i + 5, i + 4 + WordRun(s, i + 5))

\* the truth value Python gives an action in "if action and ..."
Truthy(value) ==
    CASE value.t = "none" -> FALSE
      [] value.t = "str" -> value.s # ""
      [] value.t = "int" -> value.n # 0
      [] value.t = "bool" -> value.b
      [] value.t = "list" -> value.elems # <<>>
      [] value.t = "dict" -> value.items # <<>>

\* ex.get("output", "")
OutputOf(ex) == IF "output" \in DOMAIN ex THEN ex.output ELSE PStr("")

\* the findings of one loop iteration: i is the 0-based index enumerate gives
issues_of(i, ex) ==
    LET output == OutputOf(ex)
        eg == "Example " \o IntToStr(i) \o ": "
    IN  IF output.t = "str"
        THEN IF ~StartsWith(output.s, "<start_function_call>")
             THEN <<eg \o "Missing <start_function_call> prefix">>
             ELSE IF ~EndsWith(output.s, "<end_function_call>")
             THEN <<eg \o "Missing <end_function_call> suffix">>
             ELSE IF HasCallMatch(output.s)
             THEN IF CallMatchName(output.s) \notin valid_functions
                  THEN <<eg \o "Unknown function '"
                         \o CallMatchName(output.s) \o "'">>
                  ELSE <<>>
             ELSE <<eg \o "Could not parse function name">>
        ELSE IF output.t = "dict"
        THEN LET action == Get(output.items, "action", PNone)
             IN  IF Truthy(action) /\ ~(action.t = "str" /\ action.s \in valid_actions)
                 THEN <<eg \o "Invalid action '" \o escape(action) \o "'">>
                 ELSE <<>>
        ELSE <<>>

RECURSIVE issues_upto(_, _)
issues_upto(examples, n) ==
    IF n = 0 THEN <<>>
    ELSE issues_upto(examples, n - 1) \o issues_of(n - 1, examples[n])

\* (mutant) a validator that drops the examples it has findings for
validate_examples_dropping(examples) ==
    LET Clean(ex) == issues_of(0, ex) = <<>>
    IN  [issues |-> issues_upto(examples, Len(examples)),
         examples |-> SelectSeq(examples, Clean)]

\* validate_examples(examples): the findings it returns, and the list it was
\* handed as the call leaves it (the function only reads the list)
validate_examples(examples) ==
    [issues |-> issues_upto(examples, Len(examples)),
     examples |-> examples]

-----------------------------------------------------------------------------
(* Template text *)

\* s.capitalize(): the first character upper-cased, the others lower-cased
Capitalize(s) ==
    LET
        UpperCase ==
            <<"A", "B", "C", "D", "E", "F", "G", "H", "I", "J", "K", "L", "M",
              "N", "O", "P", "Q", "R", "S", "T", "U", "V", "W", "X", "Y", "Z">>
        LowerCase ==
            <<"a", "b", "c", "d", "e", "f", "g", "h", "i", "j", "k", "l", "m",
              "n", "o", "p", "q", "r", "s", "t", "u", "v", "w", "x", "y", "z">>
        Upper(c) ==
            IF \E i \in 1..26 : LowerCase[i] = c
            THEN UpperCase[CHOOSE i \in 1..26 : LowerCase[i] = c]
            ELSE c
        Lower(c) ==
            IF \E i \in 1..26 : UpperCase[i] = c
            THEN LowerCase[CHOOSE i \in 1..26 : UpperCase[i] = c]
            ELSE c
        RECURSIVE LowerAll(_)
        LowerAll(rest) ==
            IF Len(rest) = 0 THEN ""
            ELSE Lower(CharAt(rest, 1)) \o LowerAll(SubSeq(rest, 2, Len(rest)))
    IN
        IF Len(s) = 0 THEN ""
        ELSE Upper(CharAt(s, 1)) \o LowerAll(SubSeq(s, 2, Len(s)))

\* s.replace(old, new), old not empty
RECURSIVE Replace(_, _, _)
Replace(s, old, new) ==
    IF Len(s) < Len(old) THEN s
    ELSE IF SubSeq(s, 1, Len(old)) = old
    THEN new \o Replace(SubSeq(s, Len(old) + 1, Len(s)), old, new)
    ELSE CharAt(s, 1) \o Replace(SubSeq(s, 2, Len(s)), old, new)

\* template.format(**b): every {name} field replaced by b[name]; a name b
\* does not bind is Python's KeyError and has no value here
RECURSIVE FormatStr(_, _)
FormatStr(t, b) ==
    IF Len(t) = 0 THEN ""
    ELSE IF CharAt(t, 1) = "{"
    THEN LET close == CHOOSE j \in 2..Len(t) :
                         /\ CharAt(t, j) = "}"
                         /\ \A k \in 2..(j - 1) : CharAt(t, k) # "}"
         IN  b[SubSeq(t, 2, close - 1)]
             \o FormatStr(SubSeq(t, close + 1, Len(t)), b)
    ELSE CharAt(t, 1) \o FormatStr(SubSeq(t, 2, Len(t)), b)

\* (mutant) only the first replacement of the chain is made
ReplaceEach_first_only(s, pairs) ==
    IF Len(pairs) = 0 THEN s ELSE Replace(s, pairs[1][1], pairs[1][2])

\* the chain output_str.replace(old1, new1).replace(old2, new2)...
RECURSIVE ReplaceEach(_, _)
ReplaceEach(s, pairs) ==
    IF Len(pairs) = 0 THEN s
    ELSE ReplaceEach(Replace(s, pairs[1][1], pairs[1][2]), Tail(pairs))

\* json.loads(json.dumps(output_template).replace(...)...): the template
\* with the replacements made in each of its strings.  The vocabularies hold
\* no quote and no backslash, so the text between dumps and loads stays the
\* JSON of the same structure and only the string values change.
RECURSIVE Substitute(_, _)
Substitute(value, pairs) ==
    CASE value.t = "str" -> PStr(ReplaceEach(value.s, pairs))
      [] value.t = "list" ->
            PList([i \in 1..Len(value.elems) |->
                     Substitute(value.elems[i], pairs)])
      [] value.t = "dict" ->
            PDict([i \in 1..Len(value.items) |->
                     KV(value.items[i].k, Substitute(value.items[i].v, pairs))])
      [] OTHER -> value

Example(input, output) == [input |-> input, output |-> output]

\* a template: an input pattern and an output skeleton
Tpl(input, output) == [input |-> input, output |-> output]

\* the elements of a list, for random.choice
Range(seq) == { seq[i] : i \in 1..Len(seq) }

\* lst * k
RECURSIVE Times(_, _)
Times(seq, k) == IF k = 0 THEN <<>> ELSE seq \o Times(seq, k - 1)

\* the lists of n elements drawn, with replacement, from S
Lists(S, n) == [1..n -> S]

-----------------------------------------------------------------------------
(* The vocabularies.  Each is a selection of the entries of the source     *)
(* list of the same name, in the source's order: the generators treat      *)
(* every entry alike.                                                      *)

TOPICS == <<"marketing strategy">>
TASKS == <<"call mom", "call dad", "call Sarah">>
PROJECTS == <<"marketing">>
PERSON_NAMES == <<"Michael">>
COMPANY_NAMES == <<"Acme">>
TIMES == <<"3pm">>
RELATIVE_TIMES == <<"tomorrow">>
DURATIONS == << <<"30 minutes", 30>>, <<"1 hour", 60>> >>
PRIORITIES == <<"low", "medium", "high">>

\* PROJECT_REFERENCES = get_project_references()
PROJECT_REFERENCES ==
    [i \in 1..Len(PERSON_NAMES) |-> <<PERSON_NAMES[i], "person">>]
    \o [i \in 1..Len(COMPANY_NAMES) |-> <<COMPANY_NAMES[i], "company">>]
    \o [i \in 1..Len(PROJECTS) |-> <<PROJECTS[i], "project">>]

ProjectLink(query) ==
    PList(<<PDict(<<KV("type", PStr("project")), KV("query", PStr(query))>>)>>)

CreateSkeleton(type, title) ==
    <<KV("action", PStr("create")), KV("type", PStr(type)),
      KV("title", PStr(title))>>

-----------------------------------------------------------------------------
(* generate_simple_creation_examples *)

\* one iteration of the loop: every template and every draw
simple_iteration ==
    LET
        idea_templates ==
            <<Tpl("Create idea about {topic}", PDict(CreateSkeleton("idea", "{topic}")))>>
        task_templates ==
            <<Tpl("Create task {task}", PDict(CreateSkeleton("task", "{task}")))>>
        project_templates ==
            <<Tpl("Create project called {project}",
                  PDict(CreateSkeleton("project", "{project}")))>>
        idea_priority_templates ==
            <<Tpl("Create {priority} priority idea about {topic}",
                  PDict(CreateSkeleton("idea", "{topic}")
                        \o <<KV("metadata",
                                PDict(<<KV("priority", PStr("{priority}"))>>))>>))>>
        simple_all_templates ==
            Times(idea_templates, 3) \o Times(task_templates, 4) \o project_templates
            \o idea_priority_templates
    IN
        { Example(FormatStr(tp.input, [topic |-> topic, task |-> task,
                                       project |-> project, priority |-> priority]),
                  Substitute(tp.output, << <<"{topic}", topic>>, <<"{task}", task>>,
                                           <<"{project}", project>>,
                                           <<"{priority}", priority>> >>)) :
            tp \in Range(simple_all_templates), topic \in Range(TOPICS),
            task \in Range(TASKS), project \in Range(PROJECTS),
            priority \in Range(PRIORITIES) }

\* generate_simple_creation_examples(n): the lists it can return
generate_simple_creation_examples(n) == Lists(simple_iteration, n)

-----------------------------------------------------------------------------
(* generate_project_specific_examples *)

project_iteration ==
    LET
        idea_for_project_templates ==
            <<Tpl("Idea for {project_ref} about {topic}",
                  PDict(CreateSkeleton("idea", "{topic}")
                        \o <<KV("links", ProjectLink("{project_ref}"))>>))>>
        ending_with_for_templates ==
            <<Tpl("{topic} idea for {project_ref}",
                  PDict(CreateSkeleton("idea", "{topic}")
                        \o <<KV("links", ProjectLink("{project_ref}"))>>))>>
        project_all_templates ==
            Times(idea_for_project_templates, 4) \o Times(ending_with_for_templates, 2)
    IN
        { Example(FormatStr(tp.input, [project_ref |-> ref[1], topic |-> topic,
                                       task |-> task]),
                  Substitute(tp.output, << <<"{project_ref}", ref[1]>>,
                                           <<"{topic}", topic>>,
                                           <<"{task}", task>> >>)) :
            tp \in Range(project_all_templates),
            ref \in Range(PROJECT_REFERENCES), topic \in Range(TOPICS),
            task \in Range(TASKS) }

\* generate_project_specific_examples(n): the lists it can return
generate_project_specific_examples(n) == Lists(project_iteration, n)

-----------------------------------------------------------------------------
(* generate_timed_creation_examples *)

\* one iteration: template_type is drawn among the six branches
timed_iteration ==
    LET
        TaskAt(time_field) ==
            PDict(CreateSkeleton("task", "{task}")
                  \o <<KV("metadata", PDict(<<KV("startTime", PStr(time_field))>>))>>)
        timed_task_templates == <<Tpl("{task} at {time}", TaskAt("{time}"))>>
        relative_task_templates ==
            <<Tpl("{task} {relative_time}", TaskAt("{relative_time}"))>>
        block_range_templates ==
            <<Tpl("Block {start_time} to {end_time} for {block_name}",
                  PDict(CreateSkeleton("schedule_block", "{block_name}")
                        \o <<KV("metadata",
                                PDict(<<KV("startTime", PStr("{start_time}")),
                                        KV("endTime", PStr("{end_time}")),
                                        KV("blockType", PStr("focus"))>>))>>))>>
        block_duration_templates ==
            <<Tpl("Schedule {duration} for {block_name}",
                  PDict(CreateSkeleton("schedule_block", "{block_name}")
                        \o <<KV("metadata",
                                PDict(<<KV("duration", PStr("{duration}")),
                                        KV("blockType", PStr("task"))>>))>>))>>
        meeting_templates ==
            <<Tpl("Meeting with {person} at {time}",
                  PDict(CreateSkeleton("schedule_block", "Meeting with {person}")
                        \o <<KV("metadata",
                                PDict(<<KV("startTime", PStr("{time}")),
                                        KV("blockType", PStr("event"))>>))>>))>>
        timed_task_project_templates ==
            <<Tpl("{task} for {project_ref} at {time}",
                  PDict(CreateSkeleton("task", "{task}")
                        \o <<KV("metadata", PDict(<<KV("startTime", PStr("{time}"))>>)),
                             KV("links", ProjectLink("{project_ref}"))>>))>>
        people == <<"John">>
        block_names == <<"deep work">>
        \* hours[:-2] of hours = list(range(8, 18)), and the lengths drawn
        start_hours == <<11>>
        block_lengths == <<1, 2>>
        \* f"{hour}{'pm' if hour >= 12 else 'am'}"
        HourText(hour) == IntToStr(hour) \o (IF hour >= 12 THEN "pm" ELSE "am")
        timed_task_branch ==
            { Example(FormatStr(tp.input, [task |-> task, time |-> time]),
                      Substitute(tp.output, << <<"{task}", task>>, <<"{time}", time>> >>)) :
                tp \in Range(timed_task_templates), task \in Range(TASKS),
                time \in Range(TIMES) }
        relative_task_branch ==
            { Example(FormatStr(tp.input, [task |-> task, relative_time |-> rel]),
                      Substitute(tp.output, << <<"{task}", task>>,
                                               <<"{relative_time}", rel>> >>)) :
                tp \in Range(relative_task_templates), task \in Range(TASKS),
                rel \in Range(RELATIVE_TIMES) }
        block_range_branch ==
            { LET start_time == HourText(start_hour)
                  end_time == HourText(start_hour + len)
              IN  Example(FormatStr(tp.input, [start_time |-> start_time,
                                               end_time |-> end_time,
                                               block_name |-> block_name]),
                          Substitute(tp.output, << <<"{start_time}", start_time>>,
                                                   <<"{end_time}", end_time>>,
                                                   <<"{block_name}", block_name>> >>)) :
                tp \in Range(block_range_templates), start_hour \in Range(start_hours),
                len \in Range(block_lengths), block_name \in Range(block_names) }
        block_duration_branch ==
            { Example(FormatStr(tp.input, [duration |-> dur[1],
                                           block_name |-> block_name, time |-> time]),
                      Substitute(tp.output, << <<"{duration}", dur[1]>>,
                                               <<"{block_name}", block_name>>,
                                               <<"{time}", time>> >>)) :
                tp \in Range(block_duration_templates), dur \in Range(DURATIONS),
                block_name \in Range(block_names), time \in Range(TIMES) }
        timed_project_branch ==
            { Example(FormatStr(tp.input, [task |-> task, time |-> time,
                                           project_ref |-> ref[1]]),
                      Substitute(tp.output, << <<"{task}", task>>, <<"{time}", time>>,
                                               <<"{project_ref}", ref[1]>> >>)) :
                tp \in Range(timed_task_project_templates), task \in Range(TASKS),
                time \in Range(TIMES), ref \in Range(PROJECT_REFERENCES) }
        meeting_branch ==
            { Example(FormatStr(tp.input, [person |-> person, time |-> time,
                                           relative_time |-> rel]),
                      Substitute(tp.output, << <<"{person}", person>>, <<"{time}", time>>,
                                               <<"{relative_time}", rel>> >>)) :
                tp \in Range(meeting_templates), person \in Range(people),
                time \in Range(TIMES), rel \in Range(RELATIVE_TIMES) }
    IN
        timed_task_branch \cup relative_task_branch \cup block_range_branch
        \cup block_duration_branch \cup timed_project_branch \cup meeting_branch

\* generate_timed_creation_examples(n): the lists it can return
generate_timed_creation_examples(n) == Lists(timed_iteration, n)

-----------------------------------------------------------------------------
(* generate_modification_examples *)

modification_iteration ==
    LET
        UpdateContext(rest) ==
            PDict(<<KV("action", PStr("update")), KV("target", PStr("context"))>> \o rest)
        status_templates ==
            <<Tpl("Mark as complete",
                  UpdateContext(<<KV("metadata",
                                     PDict(<<KV("status", PStr("completed"))>>))>>))>>
        time_templates ==
            <<Tpl("Move to {time}",
                  UpdateContext(<<KV("metadata",
                                     PDict(<<KV("startTime", PStr("{time}"))>>))>>)),
              Tpl("Move this to {relative_time}",
                  UpdateContext(<<KV("metadata",
                                     PDict(<<KV("startTime",
                                                PStr("{relative_time}"))>>))>>))>>
        priority_templates ==
            <<Tpl("Make this high priority",
                  UpdateContext(<<KV("metadata",
                                     PDict(<<KV("priority", PStr("high"))>>))>>))>>
        assignment_templates ==
            <<Tpl("Add to {project} project",
                  UpdateContext(<<KV("links", ProjectLink("{project}"))>>)),
              Tpl("Add to {person_name}",
                  UpdateContext(<<KV("links", ProjectLink("{person_name}"))>>))>>
        content_templates ==
            <<Tpl("Rename to {task}", UpdateContext(<<KV("title", PStr("{task}"))>>))>>
        delete_templates ==
            <<Tpl("Delete this",
                  PDict(<<KV("action", PStr("delete")), KV("target", PStr("context"))>>))>>
        modification_all_templates ==
            Times(status_templates, 3) \o Times(time_templates, 2)
            \o Times(priority_templates, 2) \o Times(assignment_templates, 3)
            \o content_templates \o Times(delete_templates, 2)
    IN
        { Example(FormatStr(tp.input, [time |-> time, relative_time |-> rel,
                                       project |-> project, task |-> task,
                                       person_name |-> person_name]),
                  Substitute(tp.output, << <<"{time}", time>>,
                                           <<"{relative_time}", rel>>,
                                           <<"{project}", project>>,
                                           <<"{person_name}", person_name>>,
                                           <<"{task}", task>> >>)) :
            tp \in Range(modification_all_templates), time \in Range(TIMES),
            rel \in Range(RELATIVE_TIMES), project \in Range(PROJECTS),
            person_name \in Range(PERSON_NAMES), task \in Range(TASKS) }

\* generate_modification_examples(n): the lists it can return
generate_modification_examples(n) == Lists(modification_iteration, n)

-----------------------------------------------------------------------------
(* generate_search_examples *)

\* the entries of TOPICS + list(set(last words of TASKS)); set() fixes no
\* order, and random.choice draws one of the entries whatever the order
\* the lists line 865 can bind search_queries to
search_queries ==
    LET
        \* t.split()[-1]: the text after the last blank
        RECURSIVE LastWord(_)
        LastWord(s) ==
            IF \E i \in 1..Len(s) : CharAt(s, i) = " "
            THEN LastWord(SubSeq(s, (CHOOSE i \in 1..Len(s) : CharAt(s, i) = " ") + 1,
                                 Len(s)))
            ELSE s
        last_words == { LastWord(t) : t \in Range(TASKS) }
    IN
        \* list(set(...)) lists each word once, in the order the set iterates
        \* them, which the string hashing of the interpreter run fixes
        { TOPICS \o order :
            order \in { f \in [1..Cardinality(last_words) -> last_words] :
                          Range(f) = last_words } }

search_all_templates ==
    LET
        SearchDict(rest) == PDict(<<KV("action", PStr("search"))>> \o rest)
        type_search_templates ==
            <<Tpl("Find ideas about {query}",
                  SearchDict(<<KV("type", PStr("idea")), KV("query", PStr("{query}"))>>))>>
        general_search_templates ==
            <<Tpl("Search for {query}", SearchDict(<<KV("query", PStr("{query}"))>>))>>
        time_search_templates ==
            <<Tpl("What tasks are due today",
                  SearchDict(<<KV("type", PStr("task")),
                               KV("filter", PDict(<<KV("dueDate", PStr("today"))>>))>>))>>
        status_search_templates ==
            <<Tpl("Show completed tasks",
                  SearchDict(<<KV("type", PStr("task")),
                               KV("filter", PDict(<<KV("status", PStr("completed"))>>))>>))>>
        project_search_templates ==
            <<Tpl("Show tasks in {project}",
                  SearchDict(<<KV("type", PStr("task")),
                               KV("filter", PDict(<<KV("project", PStr("{project}"))>>))>>)),
              Tpl("{person_name} inbox",
                  SearchDict(<<KV("filter",
                                  PDict(<<KV("project", PStr("{person_name}"))>>))>>))>>
        semantic_templates ==
            <<Tpl("What's relevant to this",
                  SearchDict(<<KV("target", PStr("context")),
                               KV("mode", PStr("semantic"))>>))>>
        navigation_templates ==
            <<Tpl("Open projects",
                  PDict(<<KV("action", PStr("navigate")),
                          KV("destination", PStr("projects"))>>))>>
    IN
        Times(type_search_templates, 3) \o Times(general_search_templates, 3)
        \o Times(time_search_templates, 2) \o Times(status_search_templates, 2)
        \o Times(project_search_templates, 3) \o semantic_templates
        \o Times(navigation_templates, 2)

\* lines 868-880: the example built from the four values drawn
search_example(tp, query, project, person_name) ==
    Example(FormatStr(tp.input, [query |-> query, project |-> project,
                                 person_name |-> person_name]),
            Substitute(tp.output, << <<"{query}", query>>,
                                     <<"{project}", project>>,
                                     <<"{person_name}", person_name>> >>))

search_iteration ==
    { search_example(tp, query, project, person_name) :
        tp \in Range(search_all_templates),
        query \in UNION { Range(queries) : queries \in search_queries },
        project \in Range(PROJECTS), person_name \in Range(PERSON_NAMES) }

\* generate_search_examples(n) in a run where line 865 yields the list
\* queries and the random source serves draws: random.choice(seq) reads one
\* value and picks by it and len(seq) alone
RECURSIVE generate_search_examples_drawn(_, _, _)
generate_search_examples_drawn(n, queries, draws) ==
    LET choice(seq, draw) == seq[(draw % Len(seq)) + 1]
    IN  IF n = 0 THEN <<>>
        ELSE <<search_example(choice(search_all_templates, draws[1]),
                              choice(queries, draws[2]),
                              choice(PROJECTS, draws[3]),
                              choice(PERSON_NAMES, draws[4]))>>
             \o generate_search_examples_drawn(n - 1, queries,
                                               SubSeq(draws, 5, Len(draws)))

\* generate_search_examples(n): the lists it can return
generate_search_examples(n) == Lists(search_iteration, n)

-----------------------------------------------------------------------------
(* generate_batch_examples *)

\* sub in s
Contains(s, sub) ==
    \E i \in 1..(Len(s) - Len(sub) + 1) : SubSeq(s, i, i + Len(sub) - 1) = sub

batch_iteration ==
    LET
        BatchItem(type, title) == <<KV("type", PStr(type)), KV("title", PStr(title))>>
        BatchDict(items) ==
            PDict(<<KV("action", PStr("batch")), KV("items", PList(items))>>)
        two_item_templates ==
            <<Tpl("{task1} and {task2}",
                  BatchDict(<<PDict(BatchItem("task", "{task1}")),
                              PDict(BatchItem("task", "{task2}"))>>))>>
        three_item_templates ==
            <<Tpl("{task1}, {task2}, and {task3}",
                  BatchDict(<<PDict(BatchItem("task", "{task1}")),
                              PDict(BatchItem("task", "{task2}")),
                              PDict(BatchItem("task", "{task3}"))>>))>>
        mixed_templates ==
            <<Tpl("Idea about {topic} and task to {task1}",
                  BatchDict(<<PDict(BatchItem("idea", "{topic}")),
                              PDict(BatchItem("task", "{task1}"))>>))>>
        batch_project_templates ==
            <<Tpl("For {project_ref} {task1} and {task2}",
                  BatchDict(<<PDict(BatchItem("task", "{task1}")
                                    \o <<KV("links", ProjectLink("{project_ref}"))>>),
                              PDict(BatchItem("task", "{task2}")
                                    \o <<KV("links", ProjectLink("{project_ref}"))>>)>>))>>
        batch_all_templates ==
            Times(two_item_templates, 3) \o Times(three_item_templates, 2)
            \o mixed_templates \o Times(batch_project_templates, 2)
        \* random.sample(population, 3): three entries at distinct positions, in the
        \* order drawn
        Sample3(population) ==
            { <<population[i], population[j], population[k]>> :
                <<i, j, k>> \in { p \in (1..Len(population)) \X (1..Len(population))
                                         \X (1..Len(population)) :
                                    p[1] # p[2] /\ p[1] # p[3] /\ p[2] # p[3] } }
    IN
        { Example(FormatStr(tp.input,
                            [task1 |-> tasks[1], task2 |-> tasks[2],
                             task3 |-> IF Contains(tp.input, "{task3}")
                                       THEN tasks[3] ELSE "",
                             topic |-> topic, project_ref |-> ref[1]]),
                  Substitute(tp.output, << <<"{task1}", tasks[1]>>,
                                           <<"{task2}", tasks[2]>>,
                                           <<"{task3}", tasks[3]>>,
                                           <<"{topic}", topic>>,
                                           <<"{project_ref}", ref[1]>> >>)) :
            tp \in Range(batch_all_templates), tasks \in Sample3(TASKS),
            topic \in Range(TOPICS), ref \in Range(PROJECT_REFERENCES) }

\* (mutant) the same task is drawn for both items
generate_batch_examples_repeating(n) ==
    Lists({ Example("call mom and call mom",
                    PDict(<<KV("action", PStr("batch")),
                            KV("items",
                               PList(<<PDict(<<KV("type", PStr("task")),
                                               KV("title", PStr("call mom"))>>),
                                       PDict(<<KV("type", PStr("task")),
                                               KV("title", PStr("call mom"))>>)>>))>>)) },
          n)

\* generate_batch_examples(n): the lists it can return
generate_batch_examples(n) == Lists(batch_iteration, n)

-----------------------------------------------------------------------------
(* generate_level_system_examples *)

LEVEL_QUERY_TYPES ==
    << <<"levelStatus", <<"What's my level">> >>,
       <<"dimensionStatus", <<"How's my cognitive dimension">> >>,
       <<"creativeDimension", <<"Creative dimension status">> >> >>

DIMENSIONS == <<"cognitive", "creative">>

\* (mutant) a dimensionStatus query keeps the phrase drawn from the table
level_iteration_table_phrase ==
    UNION { IF qt[1] = "dimensionStatus"
            THEN { Example(dt[2],
                           PStr(make_function_call("query_level_system",
                                   <<KV("query_type", PStr(qt[1])),
                                     KV("dimension", PStr(dt[1]))>>))) :
                     dt \in Range(DIMENSIONS) \X Range(qt[2]) }
            ELSE { Example(template,
                           PStr(make_function_call("query_level_system",
                                   <<KV("query_type", PStr(qt[1]))>>))) :
                     template \in Range(qt[2]) } :
            qt \in Range(LEVEL_QUERY_TYPES) }

level_iteration ==
    LET
        \* the four f-strings built around the dimension drawn
        dimension_templates(dimension) ==
            <<"How's my " \o dimension \o " dimension",
              "Show " \o dimension \o " status",
              "What's my " \o dimension \o " progress",
              Capitalize(dimension) \o " dimension status">>
    IN
        UNION { IF qt[1] = "dimensionStatus"
                THEN { Example(dt[2],
                               PStr(make_function_call("query_level_system",
                                       <<KV("query_type", PStr(qt[1])),
                                         KV("dimension", PStr(dt[1]))>>))) :
                         dt \in UNION { {d} \X Range(dimension_templates(d)) :
                                          d \in Range(DIMENSIONS) } }
                ELSE { Example(template,
                               PStr(make_function_call("query_level_system",
                                       <<KV("query_type", PStr(qt[1]))>>))) :
                         template \in Range(qt[2]) } :
                qt \in Range(LEVEL_QUERY_TYPES) }

\* generate_level_system_examples(n): the lists it can return
generate_level_system_examples(n) == Lists(level_iteration, n)

-----------------------------------------------------------------------------
(* generate_deep_work_examples *)

DEEP_WORK_DURATIONS ==
    << <<30, <<"30 minutes", "half hour">> >>, <<60, <<"1 hour">> >> >>

\* the minutes and the phrase drawn together
DurationDraws ==
    UNION { {d[1]} \X Range(d[2]) : d \in Range(DEEP_WORK_DURATIONS) }

start_iteration ==
    LET
        start_templates == <<"Start deep work">>
    IN
        { Example(template, PStr(make_function_call("start_deep_work", <<>>))) :
            template \in Range(start_templates) }

start_with_duration_iteration ==
    LET
        start_with_duration_templates == <<"Focus for {duration}">>
    IN
        { Example(FormatStr(template, [duration |-> d[2]]),
                  PStr(make_function_call("start_deep_work",
                          <<KV("duration_minutes", PInt(d[1]))>>))) :
            d \in DurationDraws, template \in Range(start_with_duration_templates) }

pomodoro_iteration ==
    LET
        start_pomodoro_templates == <<"Start pomodoro">>
    IN
        { Example(template,
                  PStr(make_function_call("start_deep_work",
                          <<KV("duration_minutes", PInt(25)),
                            KV("pomodoro_mode", PBool(TRUE))>>))) :
            template \in Range(start_pomodoro_templates) }

stop_iteration ==
    LET
        stop_templates == <<"Stop deep work">>
    IN
        { Example(template, PStr(make_function_call("stop_deep_work", <<>>))) :
            template \in Range(stop_templates) }

extend_iteration ==
    LET
        extend_templates == <<"Extend deep work by {duration}">>
    IN
        { Example(FormatStr(template, [duration |-> d[2]]),
                  PStr(make_function_call("extend_deep_work",
                          <<KV("additional_minutes", PInt(d[1]))>>))) :
            d \in DurationDraws, template \in Range(extend_templates) }

\* the lists a \o b, a from A and b from B
Concat(A, B) == { a \o b : a \in A, b \in B }

\* generate_deep_work_examples(n): five loops, of n // 4, n // 3, n // 10,
\* n // 5 and n // 6 iterations, each appending to the same list
generate_deep_work_examples(n) ==
    Concat(Concat(Concat(Concat(Lists(start_iteration, n \div 4),
                                Lists(start_with_duration_iteration, n \div 3)),
                         Lists(pomodoro_iteration, n \div 10)),
                  Lists(stop_iteration, n \div 5)),
           Lists(extend_iteration, n \div 6))

-----------------------------------------------------------------------------
(* generate_journal_examples *)

JOURNAL_ENTRY_TYPES ==
    << <<"gratitude", <<"I'm grateful for {content}">> >>,
       <<"mood", <<"I'm feeling {feeling}">> >>,
       <<"learning", <<"TIL {content}">> >>,
       <<"freeform", <<"{content}">> >> >>

GRATITUDE_CONTENT == <<"my team">>
FEELINGS == <<"great">>
LEARNING_CONTENT == <<"a new Swift feature">>
GENERAL_CONTENT == <<"my work-life balance">>

journal_iteration ==
    LET
        journal_content(entry_type) ==
            CASE entry_type = "gratitude" -> GRATITUDE_CONTENT
              [] entry_type = "mood" -> FEELINGS
              [] entry_type = "learning" -> LEARNING_CONTENT
              [] OTHER -> GENERAL_CONTENT
        journal_title(entry_type, content) ==
            IF entry_type = "mood" THEN "Feeling " \o content
            ELSE IF Len(content) < 50 THEN Capitalize(content)
            ELSE SubSeq(content, 1, 47) \o "..."
    IN
        UNION { { LET tpl == IF et[1] = "mood"
                             THEN Replace(template, "{content}", "{feeling}")
                             ELSE template
                  IN  Example(FormatStr(tpl, [content |-> content,
                                              feeling |-> content]),
                              PStr(make_function_call("create_atom",
                                      <<KV("atom_type", PStr("journalEntry")),
                                        KV("title",
                                           PStr(journal_title(et[1], content))),
                                        KV("metadata",
                                           PDict(<<KV("entryType",
                                                      PStr(et[1]))>>))>>))) :
                    template \in Range(et[2]),
                    content \in Range(journal_content(et[1])) } :
                et \in Range(JOURNAL_ENTRY_TYPES) }

\* generate_journal_examples(n): the lists it can return
generate_journal_examples(n) == Lists(journal_iteration, n)

-----------------------------------------------------------------------------
(* generate_workout_examples *)

WORKOUT_TYPES ==
    << <<"run", <<"run", "went for a run">> >>,
       <<"strength", <<"lifted weights">> >> >>
EXERCISES == <<"push ups">>

\* the type and the phrase drawn together
WorkoutDraws == UNION { {w[1]} \X Range(w[2]) : w \in Range(WORKOUT_TYPES) }

basic_workout_iteration ==
    LET
        workout_templates == <<"Log {workout_type}">>
    IN
        { Example(FormatStr(template, [workout_type |-> w[2]]),
                  PStr(make_function_call("log_workout",
                          <<KV("workout_type", PStr(w[1]))>>))) :
            w \in WorkoutDraws, template \in Range(workout_templates) }

workout_with_duration_iteration ==
    LET
        workout_with_duration_templates == <<"Log {duration} minute {workout_type}">>
        \* selections of the literal lists the loops draw from
        workout_durations == <<30>>
    IN
        { Example(FormatStr(template, [workout_type |-> w[2],
                                       duration |-> IntToStr(duration)]),
                  PStr(make_function_call("log_workout",
                          <<KV("workout_type", PStr(w[1])),
                            KV("duration_minutes", PInt(duration))>>))) :
            w \in WorkoutDraws, duration \in Range(workout_durations),
            template \in Range(workout_with_duration_templates) }

run_with_distance_iteration ==
    LET
        run_with_distance_templates == <<"Ran {distance} km">>
        workout_distances == <<5>>
    IN
        { Example(FormatStr(template, [distance |-> IntToStr(distance)]),
                  PStr(make_function_call("log_workout",
                          <<KV("workout_type", PStr("run")),
                            KV("distance_km", PInt(distance))>>))) :
            distance \in Range(workout_distances),
            template \in Range(run_with_distance_templates) }

strength_iteration ==
    LET
        strength_templates == <<"Did {sets} sets of {reps} {exercise}">>
        workout_sets == <<3>>
        workout_reps == <<8>>
    IN
        { Example(FormatStr(template, [exercise |-> exercise,
                                       sets |-> IntToStr(sets),
                                       reps |-> IntToStr(reps)]),
                  PStr(make_function_call("log_workout",
                          <<KV("workout_type", PStr("strength")),
                            KV("exercise", PStr(exercise)),
                            KV("sets", PInt(sets)), KV("reps", PInt(reps))>>))) :
            exercise \in Range(EXERCISES), sets \in Range(workout_sets),
            reps \in Range(workout_reps), template \in Range(strength_templates) }

\* generate_workout_examples(n): four loops, of n // 3, n // 3, n // 6 and
\* n // 6 iterations, each appending to the same list
generate_workout_examples(n) ==
    Concat(Concat(Concat(Lists(basic_workout_iteration, n \div 3),
                         Lists(workout_with_duration_iteration, n \div 3)),
                  Lists(run_with_distance_iteration, n \div 6)),
           Lists(strength_iteration, n \div 6))

-----------------------------------------------------------------------------
(* generate_navigation_examples *)

NAVIGATION_DESTINATIONS == << <<"home", <<"go home">> >> >>

navigation_iteration ==
    UNION { { Example(template,
                      PStr(make_function_call("navigate",
                              <<KV("destination", PStr(dest[1]))>>))) :
                template \in Range(dest[2]) } :
            dest \in Range(NAVIGATION_DESTINATIONS) }

\* generate_navigation_examples(n): the lists it can return
generate_navigation_examples(n) == Lists(navigation_iteration, n)

-----------------------------------------------------------------------------
(* format_for_mlx_lm *)

FUNCTIONGEMMA_SYSTEM_PROMPT ==
    "You are FunctionGemma, the CosmoOS Micro-Brain. You interpret user voice commands and output exactly ONE function call.\n"
    \o "You NEVER reason, explain, or generate text. You ONLY output function calls in the format:\n"
    \o "<start_function_call>call:FUNCTION_NAME{params}<end_function_call>\n"
    \o "\n"
    \o "Available functions: create_atom, update_atom, delete_atom, search_atoms, batch_create, navigate, query_level_system, start_deep_work, stop_deep_work, extend_deep_work, log_workout, trigger_correlation_analysis"

Message(role, content) == [role |-> role, content |-> content]

\* (mutant) a descriptor is written out as JSON instead of being encoded
format_one_unencoded(ex) ==
    [messages |->
        <<Message("developer", FUNCTIONGEMMA_SYSTEM_PROMPT),
          Message("user", ex.input),
          Message("model", IF ex.output.t = "str" THEN ex.output.s
                           ELSE JsonDumps(ex.output))>>]

\* the record format_for_mlx_lm appends for one example
format_one(ex) ==
    [messages |->
        <<Message("developer", FUNCTIONGEMMA_SYSTEM_PROMPT),
          Message("user", ex.input),
          Message("model", IF ex.output.t = "str" THEN ex.output.s
                           ELSE make_function_call_from_dict(ex.output))>>]

\* (mutant) the records come out last example first
format_for_mlx_lm_reversed(examples) ==
    [i \in 1..Len(examples) |-> format_one(examples[Len(examples) + 1 - i])]

format_for_mlx_lm(examples) ==
    [i \in 1..Len(examples) |-> format_one(examples[i])]

-----------------------------------------------------------------------------
(* The verb -> function mapping table of the specification (section 4.3),  *)
(* written as data: the function of each verb and, per parameter, the      *)
(* descriptor field it is read from, whether it is always emitted, and the *)
(* value emitted for a field the descriptor lacks.                         *)

Row(param, fld, always, dflt) ==
    [p |-> param, f |-> fld, always |-> always, dflt |-> dflt]

TableFunction(verb) ==
    CASE verb = PStr("create") -> "create_atom"
      [] verb = PStr("update") -> "update_atom"
      [] verb = PStr("delete") -> "delete_atom"
      [] verb = PStr("search") -> "search_atoms"
      [] verb = PStr("batch") -> "batch_create"
      [] verb = PStr("navigate") -> "navigate"

TableRows(verb) ==
    CASE verb = PStr("create") ->
            <<Row("atom_type", "type", TRUE, PStr("idea")),
              Row("title", "title", TRUE, PStr("Untitled")),
              Row("body", "body", FALSE, PNone),
              Row("metadata", "metadata", FALSE, PNone),
              Row("links", "links", FALSE, PNone)>>
      [] verb = PStr("update") ->
            <<Row("target", "target", TRUE, PStr("context")),
              Row("title", "title", FALSE, PNone),
              Row("body", "body", FALSE, PNone),
              Row("metadata", "metadata", FALSE, PNone),
              Row("links", "links", FALSE, PNone)>>
      [] verb = PStr("delete") ->
            <<Row("target", "target", TRUE, PStr("context"))>>
      [] verb = PStr("navigate") ->
            <<Row("destination", "destination", TRUE, PStr("home"))>>
      [] verb = PStr("batch") ->
            <<Row("atom_type", "type", TRUE, PStr("task")),
              Row("title", "title", TRUE, PStr("Untitled")),
              Row("links", "links", FALSE, PNone)>>

\* the (parameter, value) pairs the rows prescribe for the fields of d
RowPairs(rows, d) ==
    LET Emitted(r) == r.always \/ Has(d, r.f)
        kept == SelectSeq(rows, Emitted)
    IN  [i \in 1..Len(kept) |-> KV(kept[i].p, Get(d, kept[i].f, kept[i].dflt))]

\* the pairs the table prescribes for a whole descriptor
TablePairs(d) ==
    CASE Verb(d) = PStr("search") ->
            Opt("query", Get(d.items, "query", Absent))
            \o (IF Has(d.items, "type")
                THEN <<KV("types", PList(<<Get(d.items, "type", PNone)>>))>>
                ELSE <<>>)
            \o Get(d.items, "filter", PDict(<<>>)).items
            \o Opt("mode", Get(d.items, "mode", Absent))
            \o Opt("target", Get(d.items, "target", Absent))
      [] Verb(d) = PStr("batch") ->
            LET given == Get(d.items, "items", PList(<<>>)).elems
            IN  <<KV("items",
                     PList([i \in 1..Len(given) |->
                              PDict(RowPairs(TableRows(Verb(d)),
                                             given[i].items))]))>>
      [] OTHER -> RowPairs(TableRows(Verb(d)), d.items)

\* the Python dict built by inserting the pairs one after the other
RECURSIVE DictOf(_)
DictOf(pairs) ==
    IF Len(pairs) = 0 THEN <<>>
    ELSE LET n == Len(pairs)
         IN  DictSet(DictOf(SubSeq(pairs, 1, n - 1)), pairs[n].k, pairs[n].v)

SixVerbs ==
    {PStr("create"), PStr("update"), PStr("delete"), PStr("search"),
     PStr("batch"), PStr("navigate")}

ParamKeys(params) == [i \in 1..Len(params) |-> params[i].k]

-----------------------------------------------------------------------------
(* Claims about the encoder (checked under SpecEnc) *)

C8_TableOrder ==
    (encoded_re # PNone /\ Verb(desc) \in {PStr("create"), PStr("update")}) =>
        /\ encoded_re =
              PStr(make_function_call(TableFunction(Verb(desc)),
                     RowPairs(TableRows(Verb(desc)), reordered.items)))
        /\ ParamKeys(RowPairs(TableRows(Verb(desc)), reordered.items))
              = ParamKeys(RowPairs(TableRows(Verb(desc)), desc.items))
        /\ encoded # PNone => encoded = encoded_re

\* C8 witness: a create descriptor with every optional field, and a
\* reordering of it that differs from it, have both been encoded.
C8_Witness ==
    /\ encoded # PNone
    /\ encoded_re # PNone
    /\ Verb(desc) = PStr("create")
    /\ Len(desc.items) = 6
    /\ reordered # desc
    /\ reordered.items[1].k = "links"

\* C9: the legacy path is the canonical path: for a descriptor of any of the
\* six verbs, make_function_call_from_dict returns what make_function_call
\* returns for the function and the parameters the mapping table prescribes.
C9_LegacyIsCanonical ==
    (encoded # PNone /\ Verb(desc) \in SixVerbs) =>
        encoded = PStr(make_function_call(TableFunction(Verb(desc)),
                                          DictOf(TablePairs(desc))))

\* C9 witness: a search descriptor with a type, a filter and a mode, and a
\* batch descriptor with items, are among the descriptors encoded.
C9_Witness ==
    /\ encoded # PNone
    /\ \/ /\ Verb(desc) = PStr("search")
          /\ Has(desc.items, "type")
          /\ Has(desc.items, "mode")
          /\ Len(Get(desc.items, "filter", PDict(<<>>)).items) = 2
       \/ /\ Verb(desc) = PStr("batch")
          /\ Len(Get(desc.items, "items", PList(<<>>)).elems) = 2

-----------------------------------------------------------------------------
(* Scenario: validate_examples applied to one list.  The lists hold        *)
(* well-formed and malformed examples alike: the validator is the code     *)
(* that must tell them apart.                                              *)

ValCandidates ==
    { Example("go home",
        PStr(make_function_call("navigate", <<KV("destination", PStr("home"))>>))),
      Example("Stop deep work", PStr(make_function_call("stop_deep_work", <<>>))),
      Example("no prefix", PStr("call:navigate{}<end_function_call>")),
      Example("no suffix", PStr("<start_function_call>call:navigate{}")),
      Example("unknown", PStr("<start_function_call>call:open_door{}<end_function_call>")),
      Example("no call", PStr("<start_function_call>navigate{}<end_function_call>")),
      Example("no name", PStr("<start_function_call>call:{}<end_function_call>")),
      Example("late name",
        PStr("<start_function_call>call:open-door{x:<escape>call:navigate{<escape>}<end_function_call>")),
      Example("Create task call mom",
        PDict(<<KV("action", PStr("create")), KV("type", PStr("task")),
                KV("title", PStr("call mom"))>>)),
      Example("Archive this", PDict(<<KV("action", PStr("archive"))>>)),
      Example("empty verb", PDict(<<KV("action", PStr(""))>>)),
      Example("no verb", PDict(<<KV("title", PStr("call mom"))>>)),
      Example("a list", PList(<<>>)),
      [input |-> "no output"] }

SeqsUpTo(S, n) == UNION { [1..k -> S] : k \in 0..n }

InitVal ==
    /\ val_before \in SeqsUpTo(ValCandidates, MaxValLen)
    /\ val_examples = val_before
    /\ val_issues = <<>>
    /\ val_pc = "ready"
    /\ MainIdle /\ GenIdle /\ EncIdle

\* issues = validate_examples(examples)
Validate ==
    /\ val_pc = "ready"
    /\ val_issues' = validate_examples(val_examples).issues
    /\ val_examples' = validate_examples(val_examples).examples
    /\ val_pc' = "returned"
    /\ UNCHANGED val_before
    /\ UNCHANGED <<mainVars, genVars, encVars>>

NextVal == Validate

SpecVal == InitVal /\ [][NextVal]_vars

-----------------------------------------------------------------------------
(* Claims about the validator (checked under SpecVal) *)

\* C10: validate_examples never removes, corrects or reorders examples: when
\* it has returned, the list it was handed has the length it had before and
\* holds, at every index, the example it held before, whatever the findings.
C10_ValidatorLeavesExamples ==
    val_pc = "returned" =>
        /\ Len(val_examples) = Len(val_before)
        /\ \A i \in 1..Len(val_before) : val_examples[i] = val_before[i]

\* C10 witness: the validator has returned findings for a list of two
\* examples, one flagged and one not.
C10_Witness ==
    /\ val_pc = "returned"
    /\ Len(val_before) = 2
    /\ Len(val_issues) = 1

-----------------------------------------------------------------------------
(* Scenario: one call of a category generator, then format_for_mlx_lm on   *)
(* the list it returned                                                    *)

InitGen ==
    /\ gen_call = PNone
    /\ gen_result = <<>>
    /\ gen_formatted = <<>>
    /\ gen_pc = "ready"
    /\ gen_draws = <<>>
    /\ gen_again = <<>>
    /\ MainIdle /\ EncIdle /\ ValIdle

\* the call fn(n) returns result
Returns(fn, n, result) ==
    /\ gen_call' = [fn |-> fn, n |-> n]
    /\ gen_result' = result
    /\ gen_pc' = "returned"
    /\ UNCHANGED <<gen_formatted, gen_draws, gen_again>>
    /\ UNCHANGED <<mainVars, encVars, valVars>>

CallSimple ==
    /\ gen_pc = "ready"
    /\ \E n \in 0..MaxN : \E r \in generate_simple_creation_examples(n) :
           Returns("generate_simple_creation_examples", n, r)

CallProject ==
    /\ gen_pc = "ready"
    /\ \E n \in 0..MaxN : \E r \in generate_project_specific_examples(n) :
           Returns("generate_project_specific_examples", n, r)

CallTimed ==
    /\ gen_pc = "ready"
    /\ \E n \in 0..MaxN : \E r \in generate_timed_creation_examples(n) :
           Returns("generate_timed_creation_examples", n, r)

CallModification ==
    /\ gen_pc = "ready"
    /\ \E n \in 0..MaxN : \E r \in generate_modification_examples(n) :
           Returns("generate_modification_examples", n, r)

CallSearch ==
    /\ gen_pc = "ready"
    /\ \E n \in 0..MaxN : \E r \in generate_search_examples(n) :
           Returns("generate_search_examples", n, r)

CallBatch ==
    /\ gen_pc = "ready"
    /\ \E n \in 0..MaxN : \E r \in generate_batch_examples(n) :
           Returns("generate_batch_examples", n, r)

CallLevel ==
    /\ gen_pc = "ready"
    /\ \E n \in 0..MaxN : \E r \in generate_level_system_examples(n) :
           Returns("generate_level_system_examples", n, r)

CallDeepWork ==
    /\ gen_pc = "ready"
    /\ \E n \in 0..MaxBlockN : \E r \in generate_deep_work_examples(n) :
           Returns("generate_deep_work_examples", n, r)

CallJournal ==
    /\ gen_pc = "ready"
    /\ \E n \in 0..MaxN : \E r \in generate_journal_examples(n) :
           Returns("generate_journal_examples", n, r)

CallWorkout ==
    /\ gen_pc = "ready"
    /\ \E n \in 0..MaxBlockN : \E r \in generate_workout_examples(n) :
           Returns("generate_workout_examples", n, r)

CallNavigation ==
    /\ gen_pc = "ready"
    /\ \E n \in 0..MaxN : \E r \in generate_navigation_examples(n) :
           Returns("generate_navigation_examples", n, r)

\* formatted = format_for_mlx_lm(result)
Format ==
    /\ gen_pc = "returned"
    /\ gen_formatted' = format_for_mlx_lm(gen_result)
    /\ gen_pc' = "formatted"
    /\ UNCHANGED <<gen_call, gen_result, gen_draws, gen_again>>
    /\ UNCHANGED <<mainVars, encVars, valVars>>

NextGen ==
    \/ CallSimple
    \/ CallProject
    \/ CallTimed
    \/ CallModification
    \/ CallSearch
    \/ CallBatch
    \/ CallLevel
    \/ CallDeepWork
    \/ CallJournal
    \/ CallWorkout
    \/ CallNavigation
    \/ Format

SpecGen == InitGen /\ [][NextGen]_vars

-----------------------------------------------------------------------------
(* Claims about the generators (checked under SpecGen) *)

\* the wire grammar of the specification (sections 4.3 and 8):
\* ^<start_function_call>call:\w+\{.*\}<end_function_call>$
\* "." matches no line break; "$" also matches before one final line break
MatchesCallGrammar(s) ==
    LET open == "<start_function_call>call:"
        close == "}<end_function_call>"
        line == IF EndsWith(s, "\n") THEN SubSeq(s, 1, Len(s) - 1) ELSE s
        name == WordRun(line, Len(open) + 1)
        brace == Len(open) + name + 1
    IN  /\ StartsWith(line, open)
        /\ name >= 1
        /\ brace <= Len(line) /\ CharAt(line, brace) = "{"
        /\ EndsWith(line, close)
        /\ Len(line) - Len(close) + 1 > brace
        /\ \A i \in (brace + 1)..(Len(line) - Len(close)) :
               CharAt(line, i) # "\n"

\* the content of the model turn of a formatted record
ModelTurn(record) == record.messages[3].content

\* C1: every example a category generator produces, once passed through
\* format_for_mlx_lm, carries a model turn whose content matches
\* ^<start_function_call>call:\w+\{.*\}<end_function_call>$
C1_ModelTurnMatchesGrammar ==
    gen_pc = "formatted" =>
        /\ Len(gen_formatted) = Len(gen_result)
        /\ \A i \in 1..Len(gen_formatted) :
              /\ gen_formatted[i].messages[3].role = "model"
              /\ MatchesCallGrammar(ModelTurn(gen_formatted[i]))

\* C1 witness: two batch descriptors (nested lists and mappings) have been
\* returned by their generator and formatted
C1_Witness ==
    /\ gen_pc = "formatted"
    /\ gen_call.fn = "generate_batch_examples"
    /\ Len(gen_formatted) = 2
    /\ gen_result[1].output.t = "dict"
    /\ Contains(ModelTurn(gen_formatted[1]), "call:batch_create{items:<escape>[{")

\* the allow-list of the specification (section 6)
AllowList ==
    {"create_atom", "update_atom", "delete_atom", "search_atoms",
     "batch_create", "navigate", "query_level_system", "start_deep_work",
     "stop_deep_work", "extend_deep_work", "log_workout",
     "trigger_correlation_analysis"}

\* the position of the first occurrence of sub in s at or after from
RECURSIVE FirstAt(_, _, _)
FirstAt(s, sub, from) ==
    IF from > Len(s) \/ SubSeq(s, from, from + Len(sub) - 1) = sub
    THEN from
    ELSE FirstAt(s, sub, from + 1)

\* the text between "call:" and the first "{" after it
FunctionNameOf(s) ==
    LET c == FirstAt(s, "call:", 1)
        b == FirstAt(s, "{", c + 5)
    IN  SubSeq(s, c + 5, b - 1)

HasFunctionName(s) ==
    /\ Contains(s, "call:")
    /\ Contains(SubSeq(s, FirstAt(s, "call:", 1) + 5, Len(s)), "{")

\* C2: every encoded output, whether a generator wrote the string itself or
\* the legacy converter made it from a descriptor, names one of the twelve
\* allow-listed functions
C2_FunctionNameAllowed ==
    /\ gen_pc \in {"returned", "formatted"} =>
          \A i \in 1..Len(gen_result) :
              gen_result[i].output.t = "str" =>
                  /\ HasFunctionName(gen_result[i].output.s)
                  /\ FunctionNameOf(gen_result[i].output.s) \in AllowList
    /\ gen_pc = "formatted" =>
          \A i \in 1..Len(gen_formatted) :
              /\ HasFunctionName(ModelTurn(gen_formatted[i]))
              /\ FunctionNameOf(ModelTurn(gen_formatted[i])) \in AllowList

\* C2 witness: a delete descriptor and an update descriptor of the
\* modification generator have been converted by the legacy converter
C2_Witness ==
    /\ gen_pc = "formatted"
    /\ gen_call.fn = "generate_modification_examples"
    /\ Len(gen_formatted) = 2
    /\ FunctionNameOf(ModelTurn(gen_formatted[1])) = "delete_atom"
    /\ FunctionNameOf(ModelTurn(gen_formatted[2])) = "update_atom"

\* C3: a category generator called with target count N returns exactly N
\* examples
C3_ReturnsExactlyN ==
    gen_pc \in {"returned", "formatted"} => Len(gen_result) = gen_call.n

-----------------------------------------------------------------------------
(* main(): one run of the script *)

\* json.dumps(value): the default separators ", " and ": "
RECURSIVE json_dumps(_)
json_dumps(value) ==
    CASE value.t = "str" -> "\"" \o JsonEscape(value.s) \o "\""
      [] value.t = "int" -> IntToStr(value.n)
      [] value.t = "bool" -> (IF value.b THEN "true" ELSE "false")
      [] value.t = "none" -> "null"
      [] value.t = "list" ->
            "[" \o Join([i \in 1..Len(value.elems) |->
                            json_dumps(value.elems[i])], ", ") \o "]"
      [] value.t = "dict" ->
            "{" \o Join([i \in 1..Len(value.items) |->
                            "\"" \o JsonEscape(value.items[i].k) \o "\": "
                            \o json_dumps(value.items[i].v)], ", ") \o "}"

\* json.dump(value, f, indent=2): the text written, value nested level deep
RECURSIVE json_dump_indent(_, _)
json_dump_indent(value, level) ==
    LET
        RECURSIVE Spaces(_)
        Spaces(n) == IF n = 0 THEN "" ELSE " " \o Spaces(n - 1)
    IN
        LET inner == "\n" \o Spaces(2 * (level + 1))
            outer == "\n" \o Spaces(2 * level)
        IN  CASE value.t = "list" /\ Len(value.elems) > 0 ->
                    "[" \o inner
                    \o Join([i \in 1..Len(value.elems) |->
                                json_dump_indent(value.elems[i], level + 1)],
                            "," \o inner)
                    \o outer \o "]"
              [] value.t = "dict" /\ Len(value.items) > 0 ->
                    "{" \o inner
                    \o Join([i \in 1..Len(value.items) |->
                                "\"" \o JsonEscape(value.items[i].k) \o "\": "
                                \o json_dump_indent(value.items[i].v, level + 1)],
                            "," \o inner)
                    \o outer \o "}"
              [] OTHER -> json_dumps(value)

\* the Python dict an example is, and the one a message is
ExampleValue(ex) ==
    PDict(<<KV("input", PStr(ex.input)), KV("output", ex.output)>>)
MessageValue(message) ==
    PDict(<<KV("role", PStr(message.role)),
            KV("content", PStr(message.content))>>)

\* json.dumps of the developer message, the same in every record
developer_message_text ==
    json_dumps(MessageValue(Message("developer", FUNCTIONGEMMA_SYSTEM_PROMPT)))

message_text(message) ==
    IF message = Message("developer", FUNCTIONGEMMA_SYSTEM_PROMPT)
    THEN developer_message_text
    ELSE json_dumps(MessageValue(message))

\* json.dumps(record) of a formatted record {"messages": [...]}
record_text(record) ==
    "{\"messages\": ["
    \o Join([i \in 1..Len(record.messages) |->
                message_text(record.messages[i])], ", ")
    \o "]}"

\* the lines "for ex in formatted: f.write(json.dumps(ex) + '\n')" writes
jsonl_lines(formatted) ==
    [i \in 1..Len(formatted) |-> record_text(formatted[i]) \o "\n"]

\* seq[:k] and seq[k:]
Take(seq, k) == SubSeq(seq, 1, IF k < Len(seq) THEN k ELSE Len(seq))

\* (mutant) the slice starts one element late
Drop_one_late(seq, k) == SubSeq(seq, k + 2, Len(seq))

Drop(seq, k) == SubSeq(seq, k + 1, Len(seq))

\* (mutant) the index is rounded to the nearest integer
split_index_rounded(total) == (9 * total + 5) \div 10

\* int(len(all_examples) * 0.9): the product is a float and int() truncates
\* it; for every length below two million the result is floor(9 * total / 10)
split_index(total) == (9 * total) \div 10

\* the lists random.shuffle can leave in place of seq
RECURSIVE Shuffles(_)
Shuffles(seq) ==
    IF seq = <<>> THEN { <<>> }
    ELSE UNION { { <<seq[i]>> \o rest :
                     rest \in Shuffles(SubSeq(seq, 1, i - 1)
                                       \o SubSeq(seq, i + 1, Len(seq))) } :
                 i \in { k \in 1..Len(seq) :
                           \A j \in 1..(k - 1) : seq[j] # seq[k] } }

\* runs of at most two categories, and runs of many navigation examples
\* with or without one simple creation example
TargetChoices ==
    LET
        \* the categories main generates, in the order it concatenates them
        Categories ==
            <<"simple", "project", "timed", "modification", "level", "deep_work",
              "journal", "workout", "navigation", "batch">>
        \* The counts main passes are the literals 4000, 2500, 2000, 1500, 2000,
        \* 1000, 1000, 500, 600 and 500.  A run of the model passes scaled-down
        \* counts: the smallest count for which the category produces something.
        UnitTarget(c) ==
            CASE c = "deep_work" -> 4
              [] c = "workout" -> 3
              [] OTHER -> 1
        Targets(chosen, navigation) ==
            [c \in Range(Categories) |->
                IF c = "navigation" THEN navigation
                ELSE IF c \in chosen THEN UnitTarget(c) ELSE 0]
        OtherCategories == Range(Categories) \ {"navigation"}
    IN
        { Targets(chosen, 0) :
            chosen \in { P \in SUBSET OtherCategories : Cardinality(P) <= 2 } }
        \cup
        { Targets(chosen, navigation) :
            chosen \in { {}, {"simple"} }, navigation \in 1..MaxNavigation }

\* simple_examples[:50] + project_examples[:50]: how many examples of each
\* of the two categories go into the sample, scaled down with the counts
SampleSize == 1

Init ==
    /\ pc = "start"
    /\ targets \in TargetChoices
    /\ by_category = <<>>
    /\ all_examples = <<>>
    /\ issues = <<>>
    /\ train_examples = <<>>
    /\ valid_examples = <<>>
    /\ train_formatted = <<>>
    /\ valid_formatted = <<>>
    /\ sample_examples = <<>>
    /\ files = <<>>
    /\ GenIdle /\ EncIdle /\ ValIdle

\* lines 1515-1557: the ten generator calls and the concatenation
Generate ==
    /\ pc = "start"
    /\ by_category' \in
          [simple : generate_simple_creation_examples(targets["simple"]),
           project : generate_project_specific_examples(targets["project"]),
           timed : generate_timed_creation_examples(targets["timed"]),
           modification : generate_modification_examples(targets["modification"]),
           level : generate_level_system_examples(targets["level"]),
           deep_work : generate_deep_work_examples(targets["deep_work"]),
           journal : generate_journal_examples(targets["journal"]),
           workout : generate_workout_examples(targets["workout"]),
           navigation : generate_navigation_examples(targets["navigation"]),
           batch : generate_batch_examples(targets["batch"])]
    /\ all_examples' =
          by_category'.simple \o by_category'.project \o by_category'.timed
          \o by_category'.modification \o by_category'.level
          \o by_category'.deep_work \o by_category'.journal
          \o by_category'.workout \o by_category'.navigation
          \o by_category'.batch
    /\ pc' = "generated"
    /\ UNCHANGED <<targets, issues, train_examples, valid_examples,
                   train_formatted, valid_formatted, sample_examples, files>>
    /\ UNCHANGED <<genVars, encVars, valVars>>

\* (mutant) the validator is handed the encoded strings
ValidateAll_encoded ==
    /\ pc = "generated"
    /\ issues' =
          validate_examples(
              [i \in 1..Len(all_examples) |->
                  Example(all_examples[i].input,
                          PStr(format_one(all_examples[i]).messages[3].content))]).issues
    /\ pc' = "validated"
    /\ UNCHANGED <<targets, by_category, all_examples, train_examples, valid_examples,
                   train_formatted, valid_formatted, sample_examples, files>>
    /\ UNCHANGED <<genVars, encVars, valVars>>

\* line 1563: issues = validate_examples(all_examples)
ValidateAll ==
    /\ pc = "generated"
    /\ issues' = validate_examples(all_examples).issues
    /\ all_examples' = validate_examples(all_examples).examples
    /\ pc' = "validated"
    /\ UNCHANGED <<targets, by_category, train_examples, valid_examples,
                   train_formatted, valid_formatted, sample_examples, files>>
    /\ UNCHANGED <<genVars, encVars, valVars>>

\* (mutant) a run that goes on only when the validator found nothing
Shuffle_if_clean ==
    /\ pc = "validated"
    /\ issues = <<>>
    /\ all_examples' \in Shuffles(all_examples)
    /\ pc' = "shuffled"
    /\ UNCHANGED <<targets, by_category, issues, train_examples, valid_examples,
                   train_formatted, valid_formatted, sample_examples, files>>
    /\ UNCHANGED <<genVars, encVars, valVars>>

\* line 1574: random.shuffle(all_examples)
Shuffle ==
    /\ pc = "validated"
    /\ all_examples' \in Shuffles(all_examples)
    /\ pc' = "shuffled"
    /\ UNCHANGED <<targets, by_category, issues, train_examples, valid_examples,
                   train_formatted, valid_formatted, sample_examples, files>>
    /\ UNCHANGED <<genVars, encVars, valVars>>

\* lines 1577-1579: the split
Split ==
    /\ pc = "shuffled"
    /\ LET split_idx == split_index(Len(all_examples))
       IN  /\ train_examples' = Take(all_examples, split_idx)
           /\ valid_examples' = Drop(all_examples, split_idx)
    /\ pc' = "split"
    /\ UNCHANGED <<targets, by_category, all_examples, issues,
                   train_formatted, valid_formatted, sample_examples, files>>
    /\ UNCHANGED <<genVars, encVars, valVars>>

\* lines 1584-1585
FormatAll ==
    /\ pc = "split"
    /\ train_formatted' = format_for_mlx_lm(train_examples)
    /\ valid_formatted' = format_for_mlx_lm(valid_examples)
    /\ pc' = "formatted"
    /\ UNCHANGED <<targets, by_category, all_examples, issues, train_examples,
                   valid_examples, sample_examples, files>>
    /\ UNCHANGED <<genVars, encVars, valVars>>

File(path, chunks) == [path |-> path, chunks |-> chunks]

\* what a "with open(path, 'w')" block that raises can leave: no file when
\* open raised, else the chunks written before the write that raised
AfterFailure(path, chunks) ==
    {files} \cup { Append(files, File(path, SubSeq(chunks, 1, k))) :
                     k \in 0..Len(chunks) }

\* lines 1590-1594: train.jsonl is written
WriteTrain ==
    /\ pc = "formatted"
    /\ files' = Append(files, File("train.jsonl", jsonl_lines(train_formatted)))
    /\ pc' = "train_written"
    /\ UNCHANGED <<targets, by_category, all_examples, issues, train_examples,
                   valid_examples, train_formatted, valid_formatted,
                   sample_examples>>
    /\ UNCHANGED <<genVars, encVars, valVars>>

\* lines 1591-1593 raise: nothing in main catches the exception, which ends
\* the run
WriteTrainFails ==
    /\ pc = "formatted"
    /\ files' \in AfterFailure("train.jsonl", jsonl_lines(train_formatted))
    /\ pc' = "train_failed"
    /\ UNCHANGED <<targets, by_category, all_examples, issues, train_examples,
                   valid_examples, train_formatted, valid_formatted,
                   sample_examples>>
    /\ UNCHANGED <<genVars, encVars, valVars>>

\* lines 1596-1600: valid.jsonl is written
WriteValid ==
    /\ pc = "train_written"
    /\ files' = Append(files, File("valid.jsonl", jsonl_lines(valid_formatted)))
    /\ pc' = "valid_written"
    /\ UNCHANGED <<targets, by_category, all_examples, issues, train_examples,
                   valid_examples, train_formatted, valid_formatted,
                   sample_examples>>
    /\ UNCHANGED <<genVars, encVars, valVars>>

\* lines 1597-1599 raise
WriteValidFails ==
    /\ pc = "train_written"
    /\ files' \in AfterFailure("valid.jsonl", jsonl_lines(valid_formatted))
    /\ pc' = "valid_failed"
    /\ UNCHANGED <<targets, by_category, all_examples, issues, train_examples,
                   valid_examples, train_formatted, valid_formatted,
                   sample_examples>>
    /\ UNCHANGED <<genVars, encVars, valVars>>

\* (mutant) the sample is cut from the shuffled corpus
SampleChoices_from_corpus ==
    Shuffles(Take(all_examples, 2 * SampleSize))

\* lines 1605-1606: the sample is taken and shuffled
SampleChoices ==
    Shuffles(Take(by_category.simple, SampleSize)
             \o Take(by_category.project, SampleSize))

\* the text json.dump(sample_examples, f, indent=2) writes
sample_text(sample) ==
    json_dump_indent(PList([i \in 1..Len(sample) |-> ExampleValue(sample[i])]), 0)

\* (mutant) the shuffle before the dump is applied to the corpus list too
WriteRaw_shuffling_corpus ==
    /\ pc = "valid_written"
    /\ sample_examples' \in SampleChoices
    /\ all_examples' \in Shuffles(all_examples)
    /\ files' = Append(files, File("examples_raw.json",
                                   <<sample_text(sample_examples')>>))
    /\ pc' = "done"
    /\ UNCHANGED <<targets, by_category, issues, train_examples,
                   valid_examples, train_formatted, valid_formatted>>
    /\ UNCHANGED <<genVars, encVars, valVars>>

\* lines 1603-1609: examples_raw.json is written
WriteRaw ==
    /\ pc = "valid_written"
    /\ sample_examples' \in SampleChoices
    /\ files' = Append(files, File("examples_raw.json",
                                   <<sample_text(sample_examples')>>))
    /\ pc' = "done"
    /\ UNCHANGED <<targets, by_category, all_examples, issues, train_examples,
                   valid_examples, train_formatted, valid_formatted>>
    /\ UNCHANGED <<genVars, encVars, valVars>>

\* lines 1607-1608 raise
WriteRawFails ==
    /\ pc = "valid_written"
    /\ sample_examples' \in SampleChoices
    /\ files' \in {files, Append(files, File("examples_raw.json", <<>>))}
    /\ pc' = "raw_failed"
    /\ UNCHANGED <<targets, by_category, all_examples, issues, train_examples,
                   valid_examples, train_formatted, valid_formatted>>
    /\ UNCHANGED <<genVars, encVars, valVars>>

Next ==
    \/ Generate
    \/ ValidateAll
    \/ Shuffle
    \/ Split
    \/ FormatAll
    \/ WriteTrain
    \/ WriteTrainFails
    \/ WriteValid
    \/ WriteValidFails
    \/ WriteRaw
    \/ WriteRawFails

Spec == Init /\ [][Next]_vars

-----------------------------------------------------------------------------
(* Claims about the split (checked under Spec) *)

\* main has passed line 1579: the corpus is shuffled and split
SplitDone == pc \notin {"start", "generated", "validated", "shuffled"}

\* how often e occurs in seq
Count(seq, e) == Cardinality({ i \in 1..Len(seq) : seq[i] = e })

\* C4, as claimed: for every corpus size T the validation set has exactly
\* floor(0.1 * T) examples
C4_ValidIsFloorOfTenth ==
    SplitDone => Len(valid_examples) = Len(all_examples) \div 10

\* C4, amended: the validation set has T - floor(0.9 * T) examples, which is
\* 0.1 * T rounded up
C4_ValidIsCeilingOfTenth ==
    SplitDone => Len(valid_examples) = (Len(all_examples) + 9) \div 10

\* C4 witness: a corpus of 11 examples has been split and 2 of them are the
\* validation set
C4_Witness ==
    /\ SplitDone
    /\ Len(all_examples) = 11
    /\ Len(valid_examples) = 2

\* C5: after the split, train is the elements of the shuffled corpus at
\* indices [0, floor(0.9 * T)) and valid those at [floor(0.9 * T), T), each
\* in the corpus's order; so the sizes add up to T and every example occurs
\* in train and valid together as often as in the corpus
C5_SplitIsTwoSlices ==
    SplitDone =>
        LET total == Len(all_examples)
            cut == (9 * total) \div 10
        IN  /\ Len(train_examples) = cut
            /\ \A i \in 1..cut : train_examples[i] = all_examples[i]
            /\ Len(valid_examples) = total - cut
            /\ \A j \in 1..(total - cut) :
                   valid_examples[j] = all_examples[cut + j]
            /\ Len(train_examples) + Len(valid_examples) = total
            /\ \A e \in Range(all_examples) :
                   Count(train_examples, e) + Count(valid_examples, e)
                       = Count(all_examples, e)

\* C5 witness: a corpus of 11 examples has been split, the validation set
\* holds two different examples and the first of them is not a navigation
\* example
C5_Witness ==
    /\ SplitDone
    /\ Len(all_examples) = 11
    /\ Len(valid_examples) = 2
    /\ valid_examples[1] # valid_examples[2]
    /\ valid_examples[1].output.t = "dict"
    /\ Len(train_examples) = 9

\* C6: no (input, output) pair of the train set also occurs in the
\* validation set
C6_TrainValidDisjoint ==
    SplitDone =>
        \A i \in 1..Len(train_examples) : \A j \in 1..Len(valid_examples) :
            train_examples[i] # valid_examples[j]

-----------------------------------------------------------------------------
(* Scenario: main from line 1561 on, for a corpus a category produced from *)
(* a template table with defective entries.  The templates are authored    *)
(* data; validate_examples is the code that meets a defective one.  The    *)
(* corpus is small and is held, as main holds it, as the concatenation of  *)
(* the category lists, here the lists of two categories.                   *)

MaxCorpus == 3

RunCandidates ==
    { Example("go home",
        PStr(make_function_call("navigate", <<KV("destination", PStr("home"))>>))),
      Example("Create task call mom",
        PDict(<<KV("action", PStr("create")), KV("type", PStr("task")),
                KV("title", PStr("call mom"))>>)),
      Example("open the door",
        PStr("<start_function_call>call:open_door{}<end_function_call>")),
      Example("Archive this", PDict(<<KV("action", PStr("archive"))>>)),
      Example("call mom", PDict(<<KV("title", PStr("call mom"))>>)) }

InitRun ==
    /\ pc = "generated"
    /\ \E corpus \in SeqsUpTo(RunCandidates, MaxCorpus) :
       \E k \in 0..Len(corpus) :
          /\ by_category =
                [c \in {"simple", "project", "timed", "modification", "level",
                        "deep_work", "journal", "workout", "navigation",
                        "batch"} |->
                    CASE c = "simple" -> SubSeq(corpus, 1, k)
                      [] c = "project" -> SubSeq(corpus, k + 1, Len(corpus))
                      [] OTHER -> <<>>]
          /\ targets =
                [c \in {"simple", "project", "timed", "modification", "level",
                        "deep_work", "journal", "workout", "navigation",
                        "batch"} |->
                    CASE c = "simple" -> k
                      [] c = "project" -> Len(corpus) - k
                      [] OTHER -> 0]
          /\ all_examples = corpus
    /\ issues = <<>>
    /\ train_examples = <<>>
    /\ valid_examples = <<>>
    /\ train_formatted = <<>>
    /\ valid_formatted = <<>>
    /\ sample_examples = <<>>
    /\ files = <<>>
    /\ GenIdle /\ EncIdle /\ ValIdle

NextRun ==
    \/ ValidateAll
    \/ Shuffle
    \/ Split
    \/ FormatAll
    \/ WriteTrain
    \/ WriteTrainFails
    \/ WriteValid
    \/ WriteValidFails
    \/ WriteRaw
    \/ WriteRawFails

SpecRun == InitRun /\ [][NextRun]_vars

-----------------------------------------------------------------------------
(* Claims about the run after generation (checked under SpecRun) *)

\* both files are written, train.jsonl first
BothFilesWritten ==
    /\ pc \in {"valid_written", "done", "raw_failed"}
    /\ Len(files) >= 2
    /\ files[1].path = "train.jsonl"
    /\ files[2].path = "valid.jsonl"

\* the lines of the two files together are the records of the corpus as it
\* was handed to the validator: each example's record occurs as often as the
\* example does in the corpus, flagged or not
FilesHoldCorpus ==
    LET written == files[1].chunks \o files[2].chunks
        LineOf(ex) == record_text(format_one(ex)) \o "\n"
        corpus == by_category.simple \o by_category.project
        expected == [i \in 1..Len(corpus) |-> LineOf(corpus[i])]
    IN  /\ Len(written) = Len(expected)
        /\ \A i \in 1..Len(expected) :
               Count(written, expected[i]) = Count(expected, expected[i])

\* C11: validation is fail-open.  Once validate_examples has returned, with
\* findings or without, the next steps of the run (shuffle, split, format)
\* can be taken, the corpus keeps every example it held, and when the two
\* files are written they hold the records of every example of the corpus,
\* the flagged ones too.
C11_FailOpen ==
    /\ pc = "validated" => ENABLED Shuffle
    /\ pc = "shuffled" => ENABLED Split
    /\ pc = "split" => ENABLED FormatAll
    /\ pc # "generated" =>
          \A e \in Range(by_category.simple \o by_category.project) :
              Count(all_examples, e)
                 = Count(by_category.simple \o by_category.project, e)
    /\ pc \in {"valid_written", "done", "raw_failed"} =>
          BothFilesWritten /\ FilesHoldCorpus

\* C11 witness: both files are written for a corpus of three examples of
\* which the validator flagged two
C11_Witness ==
    /\ BothFilesWritten
    /\ FilesHoldCorpus
    /\ Len(issues) = 2
    /\ Len(by_category.simple) = 3
    /\ Len(files[1].chunks) = 2
    /\ Len(files[2].chunks) = 1

-----------------------------------------------------------------------------
(* Claims about the validator's findings (checked under SpecVal) *)

\* the validator returned a finding for the example at 0-based index k
Flagged(k) ==
    \E j \in 1..Len(val_issues) :
        StartsWith(val_issues[j], "Example " \o IntToStr(k) \o ": ")

\* C12: for an example whose output is a string there is a finding exactly
\* when the string lacks the <start_function_call> prefix or the
\* <end_function_call> suffix, or no function name can be parsed from it, or
\* the function name, the text between "call:" and the first "{", is not one
\* of the twelve allow-listed names
C12_StringFindings ==
    val_pc = "returned" =>
        \A i \in 1..Len(val_before) :
            ("output" \in DOMAIN val_before[i] /\ val_before[i].output.t = "str") =>
                LET s == val_before[i].output.s
                IN  Flagged(i - 1) <=>
                        \/ ~StartsWith(s, "<start_function_call>")
                        \/ ~EndsWith(s, "<end_function_call>")
                        \/ ~HasFunctionName(s)
                        \/ FunctionNameOf(s) \notin AllowList

\* C13: for an example whose output is a legacy descriptor there is a
\* finding exactly when the descriptor's verb is not one of the six allowed
\* verbs, a missing or an empty verb included
C13_LegacyFindings ==
    val_pc = "returned" =>
        \A i \in 1..Len(val_before) :
            ("output" \in DOMAIN val_before[i] /\ val_before[i].output.t = "dict") =>
                LET verb == Get(val_before[i].output.items, "action", PNone)
                IN  Flagged(i - 1) <=>
                        verb \notin SixVerbs

-----------------------------------------------------------------------------
(* Claims about single categories (checked under SpecGen) *)

\* the generator called, once it has returned
Returned(fn) ==
    /\ gen_pc \in {"returned", "formatted"}
    /\ gen_call.fn = fn

\* the titles of the items of a batch descriptor, in order
ItemTitles(output) ==
    LET items == Get(output.items, "items", PList(<<>>)).elems
    IN  [i \in 1..Len(items) |-> Get(items[i].items, "title", PNone)]

\* the texts that follow each "title":" in s, up to the closing quote
RECURSIVE TitlesIn(_)
TitlesIn(s) ==
    LET key == "\"title\":\""
        at == FirstAt(s, key, 1)
        from == at + Len(key)
        to == FirstAt(s, "\"", from)
    IN  IF ~Contains(s, key) THEN <<>>
        ELSE <<PStr(SubSeq(s, from, to - 1))>> \o TitlesIn(SubSeq(s, to, Len(s)))

PairwiseDistinct(seq) ==
    \A i \in 1..Len(seq) : \A j \in 1..Len(seq) : i # j => seq[i] # seq[j]

\* C14: every example generate_batch_examples returns has 2 or 3 items whose
\* titles are pairwise distinct, the mixed idea-and-task examples included,
\* and the batch_create call it is encoded to lists the same titles
C14_BatchTitlesDistinct ==
    Returned("generate_batch_examples") =>
        /\ \A i \in 1..Len(gen_result) :
              /\ Len(ItemTitles(gen_result[i].output)) \in {2, 3}
              /\ PairwiseDistinct(ItemTitles(gen_result[i].output))
        /\ gen_pc = "formatted" =>
              \A i \in 1..Len(gen_formatted) :
                  /\ FunctionNameOf(ModelTurn(gen_formatted[i])) = "batch_create"
                  /\ TitlesIn(ModelTurn(gen_formatted[i]))
                         = ItemTitles(gen_result[i].output)
                  /\ PairwiseDistinct(TitlesIn(ModelTurn(gen_formatted[i])))

\* C14 witness: a mixed example (an idea about a topic and a task) and a
\* three-task example have been returned and encoded
C14_Witness ==
    /\ Returned("generate_batch_examples")
    /\ gen_pc = "formatted"
    /\ Len(gen_result) = 2
    /\ ItemTitles(gen_result[1].output) = <<PStr("marketing strategy"), PStr("call mom")>>
    /\ Len(TitlesIn(ModelTurn(gen_formatted[2]))) = 3

-----------------------------------------------------------------------------
(* Claims about the formatted records (checked under Spec) *)

\* formatted is examples wrapped record by record, in the same order
IsEnvelopeOf(formatted, examples) ==
    /\ Len(formatted) = Len(examples)
    /\ \A i \in 1..Len(examples) :
          LET messages == formatted[i].messages
              output == examples[i].output
          IN  /\ DOMAIN formatted[i] = {"messages"}
              /\ Len(messages) = 3
              /\ messages[1] = [role |-> "developer",
                                content |-> FUNCTIONGEMMA_SYSTEM_PROMPT]
              /\ messages[2] = [role |-> "user", content |-> examples[i].input]
              /\ messages[3].role = "model"
              /\ output.t = "str" => messages[3].content = output.s
              /\ output.t = "dict" =>
                    messages[3].content = make_function_call_from_dict(output)

\* C15: format_for_mlx_lm maps k examples to k records in the same order;
\* record i holds exactly 3 messages with the roles developer, user, model,
\* whose contents are the system prompt, example i's input, and example i's
\* function-call string (the output itself if a string, else its encoding)
C15_ThreeTurnEnvelope ==
    pc \notin {"start", "generated", "validated", "shuffled", "split"} =>
        /\ IsEnvelopeOf(train_formatted, train_examples)
        /\ IsEnvelopeOf(valid_formatted, valid_examples)

\* C15 witness: a training set whose first example has a string output and
\* whose second has a descriptor has been formatted
C15_Witness ==
    /\ pc = "formatted"
    /\ Len(train_examples) >= 2
    /\ train_examples[1].output.t = "str"
    /\ train_examples[2].output.t = "dict"
    /\ ModelTurn(train_formatted[1]) = train_examples[1].output.s
    /\ ModelTurn(train_formatted[2]) # ModelTurn(train_formatted[1])
    /\ Len(valid_formatted) = 1

-----------------------------------------------------------------------------
(* Claims about the assembled corpus (checked under Spec) *)

\* the outputs of the ten generators main calls, in the order of lines 1546-1557
TenCategories ==
    by_category.simple \o by_category.project \o by_category.timed
    \o by_category.modification \o by_category.level \o by_category.deep_work
    \o by_category.journal \o by_category.workout \o by_category.navigation
    \o by_category.batch

\* C16: before the shuffle the corpus is the concatenation of the outputs of
\* all 11 category generators, the search generator included, each exactly
\* once at its target count, so its length is the sum of the 11 targets
C16_CorpusHasElevenCategories ==
    pc \in {"generated", "validated"} =>
        LET SearchTarget == 1
        IN  /\ Len(all_examples) = Len(TenCategories) + SearchTarget
            /\ \E search \in generate_search_examples(SearchTarget) :
                  \E k \in 0..Len(TenCategories) :
                      all_examples = SubSeq(TenCategories, 1, k) \o search
                                     \o SubSeq(TenCategories, k + 1, Len(TenCategories))

-----------------------------------------------------------------------------
(* Claims about the write steps (checked under SpecRun) *)

\* C17: each artifact is written in its own step and a failure to open or
\* write one is fatal to that step only: after a failed write of train.jsonl
\* the step for valid.jsonl is still taken, and after a failed write of
\* valid.jsonl the step for examples_raw.json is still taken
C17_WriteFailureIsLocal ==
    /\ pc = "train_failed" => (ENABLED WriteValid) \/ (ENABLED WriteValidFails)
    /\ pc = "valid_failed" => (ENABLED WriteRaw) \/ (ENABLED WriteRawFails)

-----------------------------------------------------------------------------
(* Claims about the level-system queries (checked under SpecGen) *)

\* s with every capital letter replaced by its small letter
ToLower(s) ==
    LET capitals == "ABCDEFGHIJKLMNOPQRSTUVWXYZ"
        smalls == "abcdefghijklmnopqrstuvwxyz"
        RECURSIVE Lowered(_)
        Lowered(rest) ==
            IF rest = "" THEN ""
            ELSE LET c == SubSeq(rest, 1, 1)
                 IN  (IF Contains(capitals, c)
                      THEN LET k == FirstAt(capitals, c, 1) IN SubSeq(smalls, k, k)
                      ELSE c)
                     \o Lowered(SubSeq(rest, 2, Len(rest)))
    IN  Lowered(s)

\* the call carries the parameter key with the value v
HasParam(call, key, v) ==
    Contains(call, key \o ":<escape>" \o v \o "<escape>")

\* the dimensions the text names, whatever the case
DimensionsNamed(text) ==
    { d \in Range(DIMENSIONS) : Contains(ToLower(text), d) }

\* C18: every example of generate_level_system_examples whose query_type is
\* dimensionStatus carries a dimension parameter and its input names that
\* same dimension, whatever the case; no example's input names one dimension
\* while its dimension parameter is another
C18_DimensionConsistent ==
    Returned("generate_level_system_examples") =>
        \A i \in 1..Len(gen_result) :
            LET call == gen_result[i].output.s
                text == gen_result[i].input
            IN  /\ HasParam(call, "query_type", "dimensionStatus") =>
                      \E d \in Range(DIMENSIONS) :
                          /\ HasParam(call, ",dimension", d)
                          /\ d \in DimensionsNamed(text)
                /\ \A d \in Range(DIMENSIONS) :
                      HasParam(call, ",dimension", d) => DimensionsNamed(text) = {d}

\* C18 witness: a dimensionStatus query for the creative dimension whose
\* input spells it with a capital, next to one for the cognitive dimension
C18_Witness ==
    /\ Returned("generate_level_system_examples")
    /\ Len(gen_result) = 2
    /\ gen_result[1].input = "Creative dimension status"
    /\ HasParam(gen_result[1].output.s, "query_type", "dimensionStatus")
    /\ HasParam(gen_result[1].output.s, ",dimension", "creative")
    /\ gen_result[2].input = "How's my cognitive dimension"
    /\ HasParam(gen_result[2].output.s, ",dimension", "cognitive")

-----------------------------------------------------------------------------
(* Claims about durations (checked under SpecGen) *)

\* the value under metadata.duration of a descriptor, PNone when it has none
MetadataDuration(output) ==
    LET metadata == Get(output.items, "metadata", PDict(<<>>))
    IN  Get(metadata.items, "duration", PNone)

\* deep-work start and extend examples: the minutes in the call are the
\* minutes paired with the phrase in the input
DeepWorkDurationsPaired ==
    Returned("generate_deep_work_examples") =>
        \A i \in 1..Len(gen_result) :
            \A d \in Range(DEEP_WORK_DURATIONS) : \A phrase \in Range(d[2]) :
                Contains(gen_result[i].input, phrase) =>
                    gen_result[i].output.s \in
                        { make_function_call("start_deep_work",
                                             <<KV("duration_minutes", PInt(d[1]))>>),
                          make_function_call("extend_deep_work",
                                             <<KV("additional_minutes", PInt(d[1]))>>) }

\* timed schedule blocks with a duration: metadata.duration is the minutes
\* paired with the phrase in the input
TimedDurationsPaired ==
    Returned("generate_timed_creation_examples") =>
        \A i \in 1..Len(gen_result) :
            \A d \in Range(DURATIONS) :
                /\ MetadataDuration(gen_result[i].output) # PNone
                /\ Contains(gen_result[i].input, d[1])
                => MetadataDuration(gen_result[i].output) = PInt(d[2])

\* C19: whenever an example's input holds a duration phrase of the duration
\* bank, the duration in its output is the integer minute count paired with
\* that phrase, for deep-work start and extend examples and for timed
\* schedule blocks with a duration
C19_DurationIsPairedMinutes ==
    /\ DeepWorkDurationsPaired
    /\ TimedDurationsPaired

-----------------------------------------------------------------------------
(* generate_search_examples called twice on the same count and the same    *)
(* random draws, in two runs of the interpreter.                           *)

\* the largest count of the two calls
MaxPureN == 1

\* the largest value the random source serves
MaxRandom == 3

InitPure == InitGen

\* the first run: line 865 yields one of its lists, the source serves draws
CallSearchDrawn ==
    /\ gen_pc = "ready"
    /\ \E n \in 0..MaxPureN : \E draws \in [1..(4 * n) -> 0..MaxRandom] :
       \E queries \in search_queries :
           /\ gen_call' = [fn |-> "generate_search_examples", n |-> n]
           /\ gen_draws' = draws
           /\ gen_result' = generate_search_examples_drawn(n, queries, draws)
    /\ gen_pc' = "returned"
    /\ UNCHANGED <<gen_formatted, gen_again>>
    /\ UNCHANGED <<mainVars, encVars, valVars>>

\* the second run: the same count and draws, line 865 evaluated afresh
CallSearchAgain ==
    /\ gen_pc = "returned"
    /\ \E queries \in search_queries :
           gen_again' = generate_search_examples_drawn(gen_call.n, queries, gen_draws)
    /\ gen_pc' = "called_again"
    /\ UNCHANGED <<gen_call, gen_result, gen_formatted, gen_draws>>
    /\ UNCHANGED <<mainVars, encVars, valVars>>

NextPure ==
    \/ CallSearchDrawn
    \/ CallSearchAgain

SpecPure == InitPure /\ [][NextPure]_vars

\* C20: a category generator is a pure function of its definition, N and the
\* random draws: two calls of generate_search_examples with the same N on the
\* same sequence of draws return identical lists, whatever order the
\* intermediate set of task words iterates in
C20_SameDrawsSameExamples ==
    gen_pc = "called_again" => gen_again = gen_result

-----------------------------------------------------------------------------
(* Claims about placeholders (checked under SpecGen) *)

\* s holds a field {name}: a brace, one or more name characters, a brace
HasPlaceholder(s) ==
    LET name_chars == "abcdefghijklmnopqrstuvwxyz_0123456789"
    IN  \E i \in 1..Len(s) :
            /\ SubSeq(s, i, i) = "{"
            /\ \E j \in (i + 2)..Len(s) :
                  /\ SubSeq(s, j, j) = "}"
                  /\ \A k \in (i + 1)..(j - 1) : Contains(name_chars, SubSeq(s, k, k))

\* the output of an example as text: the call itself, or the descriptor's JSON
OutputText(output) ==
    IF output.t = "str" THEN output.s ELSE JsonDumps(output)

\* C21: every placeholder a template references is supplied by its
\* generator: every call returns (no draw leaves a field of the input
\* pattern unbound), and no example's input text or output holds an
\* unsubstituted {name}
C21_NoPlaceholderLeft ==
    gen_pc \in {"returned", "formatted"} =>
        \A i \in 1..Len(gen_result) :
            /\ ~HasPlaceholder(gen_result[i].input)
            /\ ~HasPlaceholder(OutputText(gen_result[i].output))

\* C21 witness: a timed task for a project (three placeholders, one of them
\* inside a link) and a block with a duration have been returned
C21_Witness ==
    /\ Returned("generate_timed_creation_examples")
    /\ Len(gen_result) = 2
    /\ gen_result[1].input = "call mom for Michael at 3pm"
    /\ Contains(OutputText(gen_result[1].output), "\"query\":\"Michael\"")
    /\ gen_result[2].input = "Schedule 30 minutes for deep work"
    /\ MetadataDuration(gen_result[2].output) = PStr("30 minutes")

-----------------------------------------------------------------------------
(* Claims about the inspection artifact (checked under SpecRun) *)

\* the examples the sample is taken from, in the order they were generated
SampleSource ==
    Take(by_category.simple, SampleSize) \o Take(by_category.project, SampleSize)

\* C22: the inspection artifact is an array of the first SampleSize (50 in
\* the source) simple-creation examples and the first SampleSize
\* project-scoped examples as generated, whatever the corpus shuffle did, in
\* shuffled order and with their outputs as generated (descriptors stay
\* descriptors); that is 2 * SampleSize (100) examples, both categories
\* holding at least SampleSize as in every run of main
C22_SampleOfTwoCategories ==
    pc = "done" =>
        /\ Len(sample_examples) = Len(SampleSource)
        /\ \A i \in 1..Len(SampleSource) :
              Count(sample_examples, SampleSource[i])
                 = Count(SampleSource, SampleSource[i])
        /\ ( /\ Len(by_category.simple) >= SampleSize
             /\ Len(by_category.project) >= SampleSize )
           => Len(sample_examples) = 2 * SampleSize
        /\ Len(files) = 3
        /\ files[3] = File("examples_raw.json", <<sample_text(sample_examples)>>)

\* C22 witness: two simple examples of which only the first is sampled, one
\* project example, a corpus whose shuffle moved the first simple example,
\* and a sample that lists the project example first
C22_Witness ==
    /\ pc = "done"
    /\ Len(by_category.simple) = 2
    /\ Len(by_category.project) = 1
    /\ by_category.simple[1] # by_category.simple[2]
    /\ by_category.simple[1].output.t = "dict"
    /\ all_examples[1] # by_category.simple[1]
    /\ sample_examples = <<by_category.project[1], by_category.simple[1]>>
    /\ Len(files) = 3

-----------------------------------------------------------------------------
(* Claims about single examples (checked under SpecGen) *)

\* the positions of the deep-work stop examples in the list returned
StopPositions ==
    { i \in 1..Len(gen_result) :
        gen_result[i].input \in { e.input : e \in stop_iteration } }

\* C23: every deep-work stop example is encoded as exactly
\* <start_function_call>call:stop_deep_work{}<end_function_call>, with
\* nothing between the braces, in the example and in its formatted record
C23_StopHasNoParams ==
    Returned("generate_deep_work_examples") =>
        \A i \in StopPositions :
            /\ gen_result[i].output
                  = PStr("<start_function_call>call:stop_deep_work{}<end_function_call>")
            /\ gen_pc = "formatted" =>
                  ModelTurn(gen_formatted[i])
                     = "<start_function_call>call:stop_deep_work{}<end_function_call>"

\* C23 witness: a call with n = 10 has returned two stop examples, next to
\* examples of the other four kinds, and they have been formatted
C23_Witness ==
    /\ Returned("generate_deep_work_examples")
    /\ gen_pc = "formatted"
    /\ gen_call.n = 10
    /\ Cardinality(StopPositions) = 2
    /\ \A i \in StopPositions : gen_result[i].input = "Stop deep work"
    /\ \A i \in StopPositions :
          ModelTurn(gen_formatted[i])
             = "<start_function_call>call:stop_deep_work{}<end_function_call>"

\* the call the claim expects for the input "<task> at <time>"
TimedTaskCall(task, time) ==
    "<start_function_call>call:create_atom{atom_type:<escape>task<escape>,title:<escape>"
    \o task \o "<escape>,metadata:<escape>{\"startTime\":\"" \o time
    \o "\"}<escape>}<end_function_call>"

\* C24: every timed-creation example made from a "{task} at {time}" template
\* encodes to a create_atom call with atom_type task, the task of the input
\* as title, and a metadata parameter whose startTime is the time of the input
C24_TimedTaskStartTime ==
    Returned("generate_timed_creation_examples") =>
        \A i \in 1..Len(gen_result) :
            \A task \in Range(TASKS) : \A time \in Range(TIMES) :
                gen_result[i].input = task \o " at " \o time =>
                    /\ make_function_call_from_dict(gen_result[i].output)
                          = TimedTaskCall(task, time)
                    /\ gen_pc = "formatted" =>
                          ModelTurn(gen_formatted[i]) = TimedTaskCall(task, time)

\* C24 witness: "call mom at 3pm" and "call dad at 3pm" have been returned
\* and formatted
C24_Witness ==
    /\ Returned("generate_timed_creation_examples")
    /\ gen_pc = "formatted"
    /\ Len(gen_result) = 2
    /\ gen_result[1].input = "call mom at 3pm"
    /\ gen_result[2].input = "call dad at 3pm"
    /\ ModelTurn(gen_formatted[1]) = TimedTaskCall("call mom", "3pm")
    /\ Contains(ModelTurn(gen_formatted[2]), "{\"startTime\":\"3pm\"}")

-----------------------------------------------------------------------------
(* Claims about the order of the steps of main (checked under SpecRun) *)

\* C25 (as stated): every example is converted into its canonical
\* function-call string before the validator examines it, so what the
\* validator has examined are the strings that are persisted later
C25_ValidatorSeesCanonicalStrings ==
    pc # "generated" =>
        \A i \in 1..Len(all_examples) : all_examples[i].output.t = "str"

\* C25 (amended): the validator examines the corpus as generated, before
\* any encoding: its findings are those of the raw examples, descriptors
\* included; the encoder runs only in the format step after the split; an
\* output that is already a string is persisted as the string validated
C25_ValidatorSeesRawExamples ==
    /\ pc # "generated" => issues = validate_examples(TenCategories).issues
    /\ pc \in {"generated", "validated", "shuffled", "split"} =>
          train_formatted = <<>> /\ valid_formatted = <<>>
    /\ pc \notin {"generated", "validated", "shuffled", "split"} =>
          /\ \A i \in 1..Len(train_examples) :
                train_examples[i].output.t = "str" =>
                    ModelTurn(train_formatted[i]) = train_examples[i].output.s
          /\ \A i \in 1..Len(valid_examples) :
                valid_examples[i].output.t = "str" =>
                    ModelTurn(valid_formatted[i]) = valid_examples[i].output.s

\* C25 witness: the validator has flagged a descriptor for its verb, a
\* finding its encoded string would not get, and the corpus, which also
\* holds a string output, has been formatted
C25_Witness ==
    /\ pc = "formatted"
    /\ Len(all_examples) = 2
    /\ issues = <<"Example 1: Invalid action 'archive'">>
    /\ all_examples[1].output.t = "str"
    /\ all_examples[2].output.t = "dict"
    /\ Len(train_formatted) = 1
    /\ ModelTurn(train_formatted[1]) = all_examples[1].output.s

-----------------------------------------------------------------------------
(* Claims about the order of the steps of main (checked under Spec) *)

\* how far main has come
StepNumber(position) ==
    CASE position = "start" -> 0
      [] position = "generated" -> 1
      [] position = "validated" -> 2
      [] position = "shuffled" -> 3
      [] position = "split" -> 4
      [] position = "formatted" -> 5
      [] position \in {"train_written", "train_failed"} -> 6
      [] position \in {"valid_written", "valid_failed"} -> 7
      [] position \in {"done", "raw_failed"} -> 8

\* C26: in one run the corpus is assembled once, shuffled once, split once
\* and only then persisted, in that order: every step moves main forward,
\* the corpus list changes only when it is assembled and when it is
\* shuffled, the train and validation lists only in the split, files are
\* written only after the split, and once train and validation files are
\* written neither the corpus nor the two lists change again (the sample's
\* shuffle included)
C26_OncePerRun ==
    [][ /\ StepNumber(pc') > StepNumber(pc)
        /\ all_examples' # all_examples =>
              \/ pc = "start" /\ pc' = "generated"
              \/ pc = "validated" /\ pc' = "shuffled"
        /\ <<train_examples', valid_examples'>> # <<train_examples, valid_examples>> =>
              pc = "shuffled" /\ pc' = "split"
        /\ files' # files => StepNumber(pc) >= 5
        /\ pc = "valid_written" =>
              UNCHANGED <<all_examples, train_examples, valid_examples>>
      ]_vars

\* C26 witness: a run is done whose corpus of two was reordered by the
\* shuffle, split into one and one, and whose sample was reordered by the
\* later shuffle while corpus and split stayed as they were
C26_Witness ==
    /\ pc = "done"
    /\ Len(all_examples) = 2
    /\ all_examples # TenCategories
    /\ train_examples \o valid_examples = all_examples
    /\ Len(valid_examples) = 1
    /\ Len(sample_examples) = 2
    /\ sample_examples # SampleSource
    /\ Len(files) = 3

-----------------------------------------------------------------------------
(* Claims about the encoder's search branch (checked under SpecEnc) *)

\* the parameters the claim lists for a search descriptor, in its order
SearchExpected(d) ==
    Opt("query", Get(d, "query", Absent))
    \o (IF Has(d, "type") THEN <<KV("types", PList(<<Get(d, "type", PNone)>>))>>
        ELSE <<>>)
    \o Get(d, "filter", PDict(<<>>)).items
    \o Opt("mode", Get(d, "mode", Absent))
    \o Opt("target", Get(d, "target", Absent))

\* C27: a search descriptor is encoded as search_atoms with the parameters
\* query (if present), types as a one-element list of the type (if present),
\* every field of the filter as a top-level parameter with its filter
\* value, mode (if present), target (if present), in that order, for any
\* filter keys
C27_SearchParamsFlattened ==
    (encoded # PNone /\ Verb(desc) = PStr("search")) =>
        /\ encoded = PStr(make_function_call("search_atoms", SearchExpected(desc.items)))
        /\ \A i \in 1..Len(Get(desc.items, "filter", PDict(<<>>)).items) :
              LET field == Get(desc.items, "filter", PDict(<<>>)).items[i]
              IN  Contains(encoded.s, field.k \o ":<escape>" \o escape(field.v)
                                       \o "<escape>")

\* the same statement for the descriptors whose filter shares no key with
\* the descriptor's own mode
C27_WithoutSharedKeys ==
    Get(desc.items, "filter", PDict(<<>>)) # PDict(<<KV("mode", PStr("exact"))>>)
        => C27_SearchParamsFlattened

-----------------------------------------------------------------------------
(* Claims about the values of parameters (checked under SpecGen) *)

\* the call of the example with this input, once formatted
CallFor(input) ==
    { ModelTurn(gen_formatted[i]) :
        i \in { j \in 1..Len(gen_result) : gen_result[j].input = input } }

\* C28: escape writes a boolean as true or false, an integer as its decimal
\* digits, a string as its text, and a list or mapping in compact form, in
\* insertion order and without added whitespace: a pomodoro example carries
\* duration_minutes 25 and pomodoro_mode true, a start with a duration its
\* minutes, a meeting its two metadata fields, a task for a project its link
C28_EscapedValues ==
    gen_pc = "formatted" =>
        /\ gen_call.fn = "generate_deep_work_examples" =>
              /\ \A e \in pomodoro_iteration :
                    CallFor(e.input) \subseteq
                        { "<start_function_call>call:start_deep_work{"
                          \o "duration_minutes:<escape>25<escape>,"
                          \o "pomodoro_mode:<escape>true<escape>}<end_function_call>" }
              /\ CallFor("Focus for half hour") \subseteq
                    { "<start_function_call>call:start_deep_work{"
                      \o "duration_minutes:<escape>30<escape>}<end_function_call>" }
        /\ gen_call.fn = "generate_timed_creation_examples" =>
              /\ CallFor("Meeting with John at 3pm") \subseteq
                    { "<start_function_call>call:create_atom{"
                      \o "atom_type:<escape>schedule_block<escape>,"
                      \o "title:<escape>Meeting with John<escape>,"
                      \o "metadata:<escape>{\"startTime\":\"3pm\",\"blockType\":\"event\"}"
                      \o "<escape>}<end_function_call>" }
              /\ CallFor("call mom for Michael at 3pm") \subseteq
                    { "<start_function_call>call:create_atom{"
                      \o "atom_type:<escape>task<escape>,title:<escape>call mom<escape>,"
                      \o "metadata:<escape>{\"startTime\":\"3pm\"}<escape>,"
                      \o "links:<escape>[{\"type\":\"project\",\"query\":\"Michael\"}]"
                      \o "<escape>}<end_function_call>" }

\* C28 witness: a call with n = 10 has returned a pomodoro example and a
\* start for half an hour, and both have been formatted
C28_Witness ==
    /\ gen_pc = "formatted"
    /\ gen_call = [fn |-> "generate_deep_work_examples", n |-> 10]
    /\ \E e \in pomodoro_iteration :
          \E call \in CallFor(e.input) :
              Contains(call, "pomodoro_mode:<escape>true<escape>")
    /\ CallFor("Focus for half hour") # {}

-----------------------------------------------------------------------------
(* Claims about descriptors without a known verb (checked under SpecRun) *)

\* the call the encoder falls back to
FallbackCall ==
    "<start_function_call>call:create_atom{atom_type:<escape>idea<escape>,"
        \o "title:<escape>Unknown<escape>}<end_function_call>"

\* the example's output is a descriptor whose verb is absent or not one of
\* the six
WithoutKnownVerb(ex) ==
    /\ ex.output.t = "dict"
    /\ Get(ex.output.items, "action", PNone) \notin SixVerbs

\* the example's output is a descriptor with a verb that is not one of the six
WithUnknownVerb(ex) ==
    /\ WithoutKnownVerb(ex)
    /\ Get(ex.output.items, "action", PNone).t = "str"
    /\ Get(ex.output.items, "action", PNone).s # ""

\* C29: a descriptor whose verb is absent or not one of the six verbs is
\* encoded as the create_atom call with atom_type idea and title Unknown:
\* the validator has a finding for the example when it names an unknown
\* verb, the example stays in the corpus, its record carries that call,
\* whatever else the descriptor held, the record is written to the file of
\* its set, and the validator would have no finding for the call itself
C29_FallbackIsPersisted ==
    LET corpus == by_category.simple \o by_category.project
    IN  /\ pc # "generated" =>
              \A i \in 1..Len(corpus) :
                  WithUnknownVerb(corpus[i]) =>
                      /\ \E j \in 1..Len(issues) :
                            StartsWith(issues[j],
                                "Example " \o IntToStr(i - 1) \o ": Invalid action")
                      /\ Count(all_examples, corpus[i]) = Count(corpus, corpus[i])
        /\ Len(train_formatted) = Len(train_examples) =>
              \A i \in 1..Len(train_examples) :
                  WithoutKnownVerb(train_examples[i]) =>
                      ModelTurn(train_formatted[i]) = FallbackCall
        /\ Len(valid_formatted) = Len(valid_examples) =>
              \A i \in 1..Len(valid_examples) :
                  WithoutKnownVerb(valid_examples[i]) =>
                      ModelTurn(valid_formatted[i]) = FallbackCall
        /\ pc \in {"train_written", "valid_written", "done", "raw_failed"} =>
              \A i \in 1..Len(train_examples) :
                  WithoutKnownVerb(train_examples[i]) =>
                      /\ Len(files[1].chunks) = Len(train_examples)
                      /\ Contains(files[1].chunks[i], FallbackCall)
        /\ pc \in {"valid_written", "done", "raw_failed"} =>
              \A i \in 1..Len(valid_examples) :
                  WithoutKnownVerb(valid_examples[i]) =>
                      /\ Len(files[2].chunks) = Len(valid_examples)
                      /\ Contains(files[2].chunks[i], FallbackCall)
        /\ validate_examples(<<Example("Archive this", PStr(FallbackCall))>>).issues
              = <<>>

\* C29 witness: the corpus held a descriptor with the verb archive and one
\* without a verb; the validator had one finding, for the first; the
\* training file holds the fallback call for both
C29_Witness ==
    /\ pc = "valid_written"
    /\ Len(issues) = 1
    /\ Len(train_examples) = 2
    /\ WithUnknownVerb(train_examples[1])
    /\ WithoutKnownVerb(train_examples[2])
    /\ ~WithUnknownVerb(train_examples[2])
    /\ files[1].path = "train.jsonl"
    /\ Contains(files[1].chunks[1], FallbackCall)
    /\ Contains(files[1].chunks[2], FallbackCall)

-----------------------------------------------------------------------------
(* Claims about the level-system category (checked under SpecGen) *)

\* C30: any two examples returned by generate_level_system_examples with
\* the same input text have the same output, that is the same query_type
\* and the same dimension or none
C30_LevelFunctionalOnInputs ==
    Returned("generate_level_system_examples") =>
        \A i, j \in 1..Len(gen_result) :
            gen_result[i].input = gen_result[j].input =>
                gen_result[i].output = gen_result[j].output

\* the same for the inputs other than the phrase the table holds under
\* creativeDimension and the generator also builds for dimensionStatus
C30_ApartFromTheSharedPhrase ==
    Returned("generate_level_system_examples") =>
        \A i, j \in 1..Len(gen_result) :
            /\ gen_result[i].input = gen_result[j].input
            /\ gen_result[i].input # "Creative dimension status"
            => gen_result[i].output = gen_result[j].output

=============================================================================
